---- MODULE Spec2Model ----
(***************************************************************************)
(* Negotiation orchestration core of the hospital agent:                   *)
(*   - MultiAgentCoordinationService.initiate_negotiation, an async        *)
(*     generator driven by the SSE route's event_generator, with the       *)
(*     HospitalAgent oracle calls it awaits;                               *)
(*   - the LangGraphNegotiationService workflow.                           *)
(* A generator advances only when its consumer asks for the next event, so *)
(* every action below is "the consumer resumes the generator, which runs   *)
(* to its next suspension point (a yield or an awaited oracle call)".      *)
(***************************************************************************)
EXTENDS Integers, Sequences, FiniteSets, TLC

VARIABLES
    sessions,   \* MultiAgentCoordinationService.sessions: session_id -> NegotiationSession
    gen,        \* per negotiate call: the generator frame and its consumer
    stream,     \* per negotiate call: the events written to the SSE response
    calls,      \* per negotiate call: number of oracle calls issued, by kind
    wf,         \* LangGraphNegotiationService: the run of the workflow and its NegotiationState
    reads       \* the responses of GET /sessions/{session_id}, in the order served

vars == <<sessions, gen, stream, calls, wf, reads>>

----------------------------------------------------------------------------
\* Bounds of the model.

\* quantities (requested, and offered by a judgment) range over 1..MaxQty
MaxQty == 2

\* at most MaxReads GET /sessions/{session_id} requests are served
MaxReads == 2

\* The POST /negotiate calls of the model; the session id (a uuid4) of the
\* session a call creates is identified with the call.
Calls == {"c1"}

ResourceTypes == {"ventilators", "icu_beds"}

Prices == {5000}

----------------------------------------------------------------------------
\* Python's None, as a record so that it compares with dicts.
None == [none |-> TRUE]

\* The agent registry, in dict insertion order.
AgentIds == <<"HOSP_A", "HOSP_B", "HOSP_C">>

Registered == {AgentIds[n] : n \in 1..Len(AgentIds)}

\* Initiator ids a caller may send: the first and the second id of the
\* registry, and HOSP_X, which is not in the registry.
InitiatorInputs == {"HOSP_A", "HOSP_B", "HOSP_X"}

hospital_name(h) ==
    CASE h = "HOSP_A" -> "Apollo City Hospital"
      [] h = "HOSP_B" -> "Max Super Specialty Hospital"
      [] h = "HOSP_C" -> "Fortis Medical Centre"

\* IsNot with a fault: the filter keeps every id.
IsNot_Any(a, b) == TRUE

\* [hid for hid in self.agents.keys() if hid != initiator_hospital_id]
IsNot(a, b) == a # b

participant_ids(initiator) ==
    SelectSeq(AgentIds, LAMBDA h : IsNot(h, initiator))

----------------------------------------------------------------------------
\* Oracle output.  A completion's content is a string; it is modelled as a
\* sequence of tokens: a markdown fence, prose, or one JSON text.

\* FenceJson is the code fence that opens a json block (three backquotes and
\* the word json), Fence the bare fence of three backquotes.
FenceJson == [tok |-> "fence_json"]
Fence     == [tok |-> "fence"]
Prose     == [tok |-> "prose"]
JsonText(v) == [tok |-> "json", value |-> v]

\* A JSON value that is not an object (a list, a number, a string).
JsonArray == [json_array |-> TRUE]

IsDict(v) == "json_array" \notin DOMAIN v

\* dict.get(k) used as a truth value
Truthy(d, k) == k \in DOMAIN d /\ d[k] = TRUE

HasTok(content, t) == \E n \in 1..Len(content) : content[n] = t

FirstTok(content, t) ==
    CHOOSE n \in 1..Len(content) :
        content[n] = t /\ \A m \in 1..(n - 1) : content[m] # t

\* content.split(t)[0]
SplitHead(content, t) ==
    IF HasTok(content, t)
    THEN SubSeq(content, 1, FirstTok(content, t) - 1)
    ELSE content

\* content.split(t)[1], for a content that holds t
SplitSecond(content, t) ==
    LET rest == SubSeq(content, FirstTok(content, t) + 1, Len(content))
    IN  SplitHead(rest, t)

_extract_json(content) ==
    IF HasTok(content, FenceJson)
    THEN SplitHead(SplitSecond(content, FenceJson), Fence)
    ELSE IF HasTok(content, Fence)
         THEN SplitHead(SplitSecond(content, Fence), Fence)
         ELSE content

\* json.loads: the text must be exactly one JSON value.
JsonDecodes(text) == Len(text) = 1 /\ text[1].tok = "json"

json_loads(text) == text[1].value

\* The ways a completion wraps a JSON text j.
Wrappings(j) ==
    { <<JsonText(j)>>,
      <<FenceJson, JsonText(j), Fence>>,
      <<Fence, JsonText(j), Fence>>,
      <<Prose, FenceJson, JsonText(j), Fence, Prose>>,
      <<JsonText(j), Fence>>,
      <<Prose, JsonText(j)>> }

\* Outcomes of client.chat.completions.create(...) with choices[0].message.content:
\* the call raises (network error, timeout), the content is None (a refusal),
\* the content is prose, or it wraps one of the JSON values js.
OracleOutcomes(js) ==
    { [kind |-> "raise"], [kind |-> "none"] }
    \cup { [kind |-> "content", content |-> <<Prose>>] }
    \cup { [kind |-> "content", content |-> w] : w \in UNION { Wrappings(j) : j \in js } }

----------------------------------------------------------------------------
\* HospitalAgent.analyze_request

Helpful(q, p) ==
    [can_help |-> TRUE, quantity_available |-> q, proposed_price_per_unit |-> p,
     conditions |-> <<"return after use">>, reasoning |-> "spare capacity",
     confidence |-> 80]

Declined ==
    [can_help |-> FALSE, reasoning |-> "no spare capacity", confidence |-> 90]

\* JSON values an analysis completion may carry: well-formed judgments, objects
\* with fields missing, and a value that is no object.
AnalysisJsons ==
    { Helpful(q, p) : q \in 1..MaxQty, p \in Prices }
    \cup { Declined }
    \cup { [can_help |-> TRUE, proposed_price_per_unit |-> p, confidence |-> 70] : p \in Prices }
    \cup { [can_help |-> TRUE, quantity_available |-> 1, confidence |-> 70] }
    \cup { [reasoning |-> "unsure"] }
    \cup { JsonArray }

InvalidFormat ==
    [can_help |-> FALSE, reasoning |-> "Invalid response format", confidence |-> 0]

SystemError ==
    [can_help |-> FALSE, reasoning |-> "System error", confidence |-> 0]

analyze_request(o) ==
    IF o.kind # "content"
    THEN SystemError      \* except Exception (None.strip() raises AttributeError)
    ELSE IF JsonDecodes(_extract_json(o.content))
         THEN json_loads(_extract_json(o.content))
         ELSE InvalidFormat   \* except json.JSONDecodeError

----------------------------------------------------------------------------
\* HospitalAgent.negotiate_offer

AdjustedPrices == {4500}

NegotiationJsons ==
    { [adjust_offer |-> TRUE, new_price_per_unit |-> p,
       new_conditions |-> <<"pay on delivery">>, strategy |-> "undercut"] : p \in AdjustedPrices }
    \cup { [adjust_offer |-> FALSE, strategy |-> "hold"] }
    \cup { [adjust_offer |-> TRUE] }
    \cup { [strategy |-> "unsure"] }
    \cup { JsonArray }

NoAdjustment == [adjust_offer |-> FALSE]

negotiate_offer(o) ==
    IF o.kind # "content"
    THEN NoAdjustment     \* except Exception
    ELSE IF JsonDecodes(_extract_json(o.content))
         THEN json_loads(_extract_json(o.content))
         ELSE NoAdjustment

----------------------------------------------------------------------------
\* MultiAgentCoordinationService._make_decision

NoOffersDecision ==
    [success |-> FALSE, reason |-> "No offers received",
     recommendations |-> <<"Try increasing budget", "Reduce quantity", "Extend timeline">>]

DecisionError ==
    [success |-> FALSE, reason |-> "System error during decision making"]

Selected(offer) ==
    [hospital |-> offer.hospital_name, quantity |-> offer.quantity,
     total_cost |-> offer.quantity * offer.price_per_unit]

RECURSIVE SumCost(_)
SumCost(sel) ==
    IF sel = <<>> THEN 0 ELSE sel[1].total_cost + SumCost(Tail(sel))

Selection(sel) ==
    [success |-> TRUE, selected_offers |-> sel, total_cost |-> SumCost(sel),
     reasoning |-> "best value"]

\* JSON values a decision completion may carry for the offers at hand.
DecisionJsons(offers) ==
    { Selection(<<Selected(offers[n])>>) : n \in 1..Len(offers) }
    \cup { Selection([n \in 1..Len(offers) |-> Selected(offers[n])]) }
    \cup { [success |-> FALSE, reasoning |-> "all offers over budget"] }
    \cup { [success |-> TRUE, reasoning |-> "proceed"] }
    \cup { JsonArray }

_make_decision(o) ==
    IF o.kind # "content"
    THEN DecisionError    \* except Exception
    ELSE IF JsonDecodes(_extract_json(o.content))
         THEN json_loads(_extract_json(o.content))
         ELSE DecisionError

----------------------------------------------------------------------------
\* Events and the generator frame.

Ev(kind) == [event |-> kind]

AgentEv(kind, h) == [event |-> kind, agent |-> hospital_name(h)]

\* The first event carries the id of the session.
InitiatedEv(session_id) == [event |-> "negotiation_initiated", session_id |-> session_id]

AdjustedEv(h, result) ==
    [event |-> "offer_adjusted", agent |-> hospital_name(h), adjustment |-> result]

OfferEv(h, offer) ==
    [event |-> "offer_received", agent |-> hospital_name(h), offer |-> offer]

ResourceRequest(initiator, rtype, qty) ==
    [hospital_id |-> initiator, hospital_name |-> hospital_name(initiator),
     resource_type |-> rtype, quantity |-> qty]

NegotiationSession(c, initiator, rtype, qty) ==
    [session_id |-> c,
     initiator_hospital |-> initiator,
     participant_hospitals |-> participant_ids(initiator),
     request |-> ResourceRequest(initiator, rtype, qty),
     offers |-> <<>>,
     status |-> "initiated",
     messages |-> <<>>,
     final_agreement |-> None]

ResourceOffer(h, rtype, analysis) ==
    [hospital_id |-> h, hospital_name |-> hospital_name(h),
     resource_type |-> rtype,
     quantity |-> analysis.quantity_available,
     price_per_unit |-> analysis.proposed_price_per_unit,
     conditions |-> IF "conditions" \in DOMAIN analysis THEN analysis.conditions ELSE <<>>]

Message(h, analysis) == [from |-> h, type |-> "analysis", content |-> analysis]

\* pc: the suspension point; i, k: the loop positions; negotiation_result: the
\* local of that name; fault: the exception that left the generator.
IdleFrame ==
    [pc |-> "idle", i |-> 0, k |-> 0, negotiation_result |-> None,
     consumer |-> "attached", fault |-> "none"]

Init ==
    /\ sessions = <<>>
    /\ gen = [c \in Calls |-> IdleFrame]
    /\ stream = [c \in Calls |-> <<>>]
    /\ calls = [c \in Calls |-> [analyze |-> 0, negotiate |-> 0, decide |-> 0]]
    /\ wf = [node |-> "idle"]
    /\ reads = <<>>

At(c, pc) == gen[c].pc = pc /\ gen[c].consumer = "attached" /\ UNCHANGED <<wf, reads>>

Goto(c, pc) == gen' = [gen EXCEPT ![c].pc = pc]

Emit(c, e) == stream' = [stream EXCEPT ![c] = Append(@, e)]

\* Store with a fault: one session object is shared by every call.
Store_Shared(c, sess) == sessions' = [d \in DOMAIN sessions |-> sess]

\* The session object of the call is mutated in place.
Store(c, sess) == sessions' = [sessions EXCEPT ![c] = sess]

\* Raise with a fault: the except clause writes no error event.
Raise_Silent(c, exc) ==
    /\ gen' = [gen EXCEPT ![c].pc = "closed", ![c].fault = exc]
    /\ UNCHANGED stream

\* An exception leaves initiate_negotiation: event_generator's except clause
\* writes an error event and the response ends.
Raise(c, exc) ==
    /\ gen' = [gen EXCEPT ![c].pc = "closed", ![c].fault = exc]
    /\ Emit(c, Ev("error"))

----------------------------------------------------------------------------
\* MultiAgentCoordinationService.initiate_negotiation, one action per stretch
\* of code between two suspension points.

\* Start with a fault: the session map is built anew for the session.
Start_Reset(c, initiator, rtype, qty) ==
    /\ At(c, "idle")
    /\ wf.node = "idle"
    /\ UNCHANGED calls
    /\ IF initiator \notin Registered
       THEN /\ Raise(c, "KeyError")
            /\ UNCHANGED sessions
       ELSE /\ sessions' = [d \in {c} |-> NegotiationSession(c, initiator, rtype, qty)]
            /\ Emit(c, InitiatedEv(c))
            /\ Goto(c, "y_initiated")

\* The route is called and the first event requested: the code up to the
\* first yield.  self.agents[initiator_hospital_id] raises KeyError for an id
\* that is not in the registry, before any session exists.
Start(c, initiator, rtype, qty) ==
    /\ At(c, "idle")
    /\ wf.node = "idle"
    /\ UNCHANGED calls
    /\ IF initiator \notin Registered
       THEN /\ Raise(c, "KeyError")
            /\ UNCHANGED sessions
       ELSE /\ sessions' = [d \in DOMAIN sessions \cup {c} |->
                               IF d = c THEN NegotiationSession(c, initiator, rtype, qty)
                               ELSE sessions[d]]
            /\ Emit(c, InitiatedEv(c))
            /\ Goto(c, "y_initiated")

\* Phase 1
Broadcast(c) ==
    /\ At(c, "y_initiated")
    /\ Store(c, [sessions[c] EXCEPT !.status = "broadcasting"])
    /\ Emit(c, Ev("broadcasting_request"))
    /\ Goto(c, "y_broadcasting")
    /\ UNCHANGED calls

\* await asyncio.sleep(1)
Sleep(c) ==
    /\ At(c, "y_broadcasting")
    /\ Goto(c, "sleep")
    /\ UNCHANGED <<sessions, stream, calls>>

\* EnterDeciding with a fault: the status written is the one of phase 2.
EnterDeciding_Regress(c, sess, result) ==
    /\ Store(c, [sess EXCEPT !.status = "collecting_responses"])
    /\ Emit(c, Ev("making_decision"))
    /\ gen' = [gen EXCEPT ![c].pc = "y_deciding", ![c].negotiation_result = result]

\* EnterDeciding with a fault: only the first offer is kept for the decision.
EnterDeciding_Prune(c, sess, result) ==
    /\ Store(c, [sess EXCEPT !.status = "deciding", !.offers = IF @ = <<>> THEN @ ELSE <<@[1]>>])
    /\ Emit(c, Ev("making_decision"))
    /\ gen' = [gen EXCEPT ![c].pc = "y_deciding", ![c].negotiation_result = result]

\* Phase 4 is entered: status deciding, making_decision is yielded.
EnterDeciding(c, sess, result) ==
    /\ Store(c, [sess EXCEPT !.status = "deciding"])
    /\ Emit(c, Ev("making_decision"))
    /\ gen' = [gen EXCEPT ![c].pc = "y_deciding", ![c].negotiation_result = result]

\* NeedsNegotiation with a fault: one offer is enough.
NeedsNegotiation_AtLeastOne(offers) == Len(offers) > 0

\* if len(session.offers) > 1
NeedsNegotiation(offers) == Len(offers) > 1

\* The collection loop is over: phase 3 if there are several offers, else phase 4.
AfterCollect(c, sess) ==
    IF NeedsNegotiation(sess.offers)
    THEN /\ Store(c, [sess EXCEPT !.status = "negotiating"])
         /\ Emit(c, Ev("negotiation_round_started"))
         /\ Goto(c, "y_round")
    ELSE EnterDeciding(c, sess, gen[c].negotiation_result)

\* CollectLoop with a fault: agent_analyzing is not yielded before the call.
CollectLoop_Silent(c, sess, i) ==
    IF i <= Len(sess.participant_hospitals)
    THEN /\ Store(c, sess)
         /\ UNCHANGED stream
         /\ gen' = [gen EXCEPT ![c].pc = "y_analyzing", ![c].i = i]
    ELSE AfterCollect(c, sess)

\* for hospital_id in participant_ids: the head of iteration i
CollectLoop(c, sess, i) ==
    IF i <= Len(sess.participant_hospitals)
    THEN /\ Store(c, sess)
         /\ Emit(c, AgentEv("agent_analyzing", sess.participant_hospitals[i]))
         /\ gen' = [gen EXCEPT ![c].pc = "y_analyzing", ![c].i = i]
    ELSE AfterCollect(c, sess)

\* Phase 2
Collect(c) ==
    /\ At(c, "sleep")
    /\ CollectLoop(c, [sessions[c] EXCEPT !.status = "collecting_responses"], 1)
    /\ UNCHANGED calls

\* analysis = await agent.analyze_request(request): the oracle call is issued
CallAnalyze(c) ==
    /\ At(c, "y_analyzing")
    /\ Goto(c, "await_analyze")
    /\ calls' = [calls EXCEPT ![c].analyze = @ + 1]
    /\ UNCHANGED <<sessions, stream>>

\* HandleAnalysis with a fault: a judgment that declines is not recorded.
HandleAnalysis_OffersOnly(c, analysis) ==
    LET sess == sessions[c]
        h    == sess.participant_hospitals[gen[c].i]
        told == [sess EXCEPT !.messages = Append(@, Message(h, analysis))]
    IN  IF ~IsDict(analysis)
        THEN Store(c, told) /\ Raise(c, "AttributeError")
        ELSE IF Truthy(analysis, "can_help")
        THEN IF {"quantity_available", "proposed_price_per_unit"} \subseteq DOMAIN analysis
             THEN LET offer == ResourceOffer(h, sess.request.resource_type, analysis)
                  IN  /\ Store(c, [told EXCEPT !.offers = Append(@, offer)])
                      /\ Emit(c, OfferEv(h, offer))
                      /\ Goto(c, "y_offer")
             ELSE Store(c, told) /\ Raise(c, "KeyError")
        ELSE /\ Store(c, sess)
             /\ Emit(c, AgentEv("offer_declined", h))
             /\ Goto(c, "y_offer")

\* The rest of a loop iteration, from the judgment analyze_request returned.
\* analysis.get raises AttributeError on a value that is no dict, and
\* analysis["quantity_available"] / ["proposed_price_per_unit"] raise KeyError.
HandleAnalysis(c, analysis) ==
    LET sess == sessions[c]
        h    == sess.participant_hospitals[gen[c].i]
        told == [sess EXCEPT !.messages = Append(@, Message(h, analysis))]
    IN  IF ~IsDict(analysis)
        THEN Store(c, told) /\ Raise(c, "AttributeError")
        ELSE IF Truthy(analysis, "can_help")
        THEN IF {"quantity_available", "proposed_price_per_unit"} \subseteq DOMAIN analysis
             THEN LET offer == ResourceOffer(h, sess.request.resource_type, analysis)
                  IN  /\ Store(c, [told EXCEPT !.offers = Append(@, offer)])
                      /\ Emit(c, OfferEv(h, offer))
                      /\ Goto(c, "y_offer")
             ELSE Store(c, told) /\ Raise(c, "KeyError")
        ELSE /\ Store(c, told)
             /\ Emit(c, AgentEv("offer_declined", h))
             /\ Goto(c, "y_offer")

AnalyzeReturns(c, o) ==
    /\ At(c, "await_analyze")
    /\ HandleAnalysis(c, analyze_request(o))
    /\ UNCHANGED calls

\* The consumer asks for the event after offer_received / offer_declined.
NextParticipant(c) ==
    /\ At(c, "y_offer")
    /\ CollectLoop(c, sessions[c], gen[c].i + 1)
    /\ UNCHANGED calls

\* NegotiateLoop with a fault: the calls of all offers are issued at once.
NegotiateLoop_Gather(c, k, result) ==
    IF k <= Len(sessions[c].offers)
    THEN /\ gen' = [gen EXCEPT ![c].pc = "await_negotiate", ![c].k = k,
                               ![c].negotiation_result = result]
         /\ calls' = [calls EXCEPT ![c].negotiate = @ + Len(sessions[c].offers)]
         /\ UNCHANGED <<sessions, stream>>
    ELSE /\ EnterDeciding(c, sessions[c], result)
         /\ UNCHANGED calls

\* for offer in session.offers: the head of iteration k
NegotiateLoop(c, k, result) ==
    IF k <= Len(sessions[c].offers)
    THEN /\ gen' = [gen EXCEPT ![c].pc = "await_negotiate", ![c].k = k,
                               ![c].negotiation_result = result]
         /\ calls' = [calls EXCEPT ![c].negotiate = @ + 1]
         /\ UNCHANGED <<sessions, stream>>
    ELSE /\ EnterDeciding(c, sessions[c], result)
         /\ UNCHANGED calls

\* Phase 3
Negotiate(c) ==
    /\ At(c, "y_round")
    /\ NegotiateLoop(c, 1, gen[c].negotiation_result)

\* if negotiation_result.get("adjust_offer"): yield offer_adjusted
HandleNegotiation(c, result) ==
    LET offer == sessions[c].offers[gen[c].k]
    IN  IF ~IsDict(result)
        THEN /\ gen' = [gen EXCEPT ![c].pc = "closed", ![c].fault = "AttributeError",
                                   ![c].negotiation_result = result]
             /\ Emit(c, Ev("error"))
             /\ UNCHANGED <<sessions, calls>>
        ELSE IF Truthy(result, "adjust_offer")
        THEN /\ Emit(c, AdjustedEv(offer.hospital_id, result))
             /\ gen' = [gen EXCEPT ![c].pc = "y_adjusted", ![c].negotiation_result = result]
             /\ UNCHANGED <<sessions, calls>>
        ELSE NegotiateLoop(c, gen[c].k + 1, result)

NegotiateReturns(c, o) ==
    /\ At(c, "await_negotiate")
    /\ HandleNegotiation(c, negotiate_offer(o))

NextOffer(c) ==
    /\ At(c, "y_adjusted")
    /\ NegotiateLoop(c, gen[c].k + 1, gen[c].negotiation_result)

\* session.final_agreement = decision; session.status = "completed"
Complete(c, decision) ==
    /\ Store(c, [sessions[c] EXCEPT !.final_agreement = decision, !.status = "completed"])
    /\ Emit(c, Ev("negotiation_completed"))
    /\ Goto(c, "y_completed")

\* decision = await self._make_decision(session)
Decide(c) ==
    /\ At(c, "y_deciding")
    /\ IF sessions[c].offers = <<>>
       THEN Complete(c, NoOffersDecision) /\ UNCHANGED calls
       ELSE /\ Goto(c, "await_decision")
            /\ calls' = [calls EXCEPT ![c].decide = @ + 1]
            /\ UNCHANGED <<sessions, stream>>

DecisionReturns(c) ==
    /\ At(c, "await_decision")
    /\ \E o \in OracleOutcomes(DecisionJsons(sessions[c].offers)) :
           Complete(c, _make_decision(o))
    /\ UNCHANGED calls

\* StreamComplete with a fault: the finished session is cleared.
StreamComplete_Cleared(c) ==
    /\ At(c, "y_completed")
    /\ Emit(c, Ev("stream_complete"))
    /\ Goto(c, "closed")
    /\ Store(c, [sessions[c] EXCEPT !.offers = <<>>, !.final_agreement = None])
    /\ UNCHANGED calls

\* The generator is exhausted: event_generator writes stream_complete.
StreamComplete(c) ==
    /\ At(c, "y_completed")
    /\ Emit(c, Ev("stream_complete"))
    /\ Goto(c, "closed")
    /\ UNCHANGED <<sessions, calls>>

\* The client disconnects: the response task is cancelled and the generator
\* is never resumed.
Disconnect(c) ==
    /\ gen[c].pc \notin {"idle", "closed"}
    /\ gen[c].consumer = "attached"
    /\ UNCHANGED <<wf, reads>>
    /\ gen' = [gen EXCEPT ![c].consumer = "detached"]
    /\ UNCHANGED <<sessions, stream, calls>>

\* The steps of one POST /negotiate call.
NegotiateCall(c) ==
        \/ \E h \in InitiatorInputs, r \in ResourceTypes, q \in 1..MaxQty : Start(c, h, r, q)
        \/ Broadcast(c)
        \/ Sleep(c)
        \/ Collect(c)
        \/ CallAnalyze(c)
        \/ \E o \in OracleOutcomes(AnalysisJsons) : AnalyzeReturns(c, o)
        \/ NextParticipant(c)
        \/ Negotiate(c)
        \/ \E o \in OracleOutcomes(NegotiationJsons) : NegotiateReturns(c, o)
        \/ NextOffer(c)
        \/ Decide(c)
        \/ DecisionReturns(c)
        \/ StreamComplete(c)
        \/ Disconnect(c)

----------------------------------------------------------------------------
\* LangGraphNegotiationService.  The workflow runs its seven nodes in the
\* order of the edges of _build_workflow; each node is one action.  The model
\* follows one request at a time, a POST /negotiate call or a workflow run:
\* the two services share no state.

\* Amounts of the workflow.
OfferTotals == {40000, 80000}

TargetUnitPrices == {7000, 12000}

\* float('inf'), the sort key of an offer without total_price
Infinity == 1000000000

\* x * n / 100 for the percentages of _negotiate (the amounts of the model
\* are chosen so that the division is exact)
Pct(x, n) == (x * n) \div 100

\* Max with a fault: the smaller of the two.
Max_Smaller(a, b) == IF a >= b THEN b ELSE a

Max(a, b) == IF a >= b THEN a ELSE b

\* The cache_service a service is built with: None (the default), the
\* CacheService of cache_service.py (it has no get_keys), or a store with the
\* get_keys / get / set the nodes call.
CacheKinds == {"None", "CacheService", "Store"}

\* Offers other hospitals may have put in the store for a requester.
StoredOffer(h, total, rtype) ==
    [hospital_id |-> h, total_price |-> total, resource_type |-> rtype,
     quality_certification |-> "ISO 13485"]

\* Text extraction of the nodes: _analyze_need strips both kinds of fence,
\* _evaluate_offers and _negotiate only the json fence.
ExtractNode(content, bare) ==
    IF HasTok(content, FenceJson)
    THEN SplitHead(SplitSecond(content, FenceJson), Fence)
    ELSE IF bare /\ HasTok(content, Fence)
         THEN SplitHead(SplitSecond(content, Fence), Fence)
         ELSE content

\* What json.loads(text.strip()) of an LLM response gives: decoded is FALSE
\* when the call, the extraction or the decoding raised.
LlmJson(o, bare) ==
    IF o.kind = "content" /\ JsonDecodes(ExtractNode(o.content, bare))
    THEN [decoded |-> TRUE, value |-> json_loads(ExtractNode(o.content, bare))]
    ELSE [decoded |-> FALSE]

\* NegotiationState as run_autonomous_negotiation builds it.  node is the
\* node to run next; llm and cache_service are the service's attributes and
\* ledger is the contracts the store holds, by contract id, from the moment
\* the run writes its own.
EmptyLedger == [k \in {} |-> None]

\* Put with a fault: a key that is taken is not written again.
Put_IfAbsent(ledger, key, value) ==
    [k \in DOMAIN ledger \cup {key} |->
        IF k \in DOMAIN ledger THEN ledger[k] ELSE value]

\* redis setex: the value of the key is replaced.
Put(ledger, key, value) ==
    [k \in DOMAIN ledger \cup {key} |-> IF k = key THEN value ELSE ledger[k]]

InitialState(h, rtype, qty, cache) ==
    [node |-> "analyze_need", llm |-> TRUE, cache_service |-> cache, error |-> "none",
     requesting_hospital |-> h, resource_type |-> rtype, quantity |-> qty,
     current_step |-> "initializing",
     analysis_complete |-> FALSE, offers_collected |-> FALSE,
     negotiation_complete |-> FALSE, contract_finalized |-> FALSE,
     need_analysis |-> None, broadcast_sent |-> FALSE,
     offers |-> <<>>, offer_evaluations |-> None, negotiation_rounds |-> <<>>,
     best_offer |-> None, final_contract |-> None, ledger |-> EmptyLedger,
     notifications |-> <<>>, completed_at |-> None, total_time_seconds |-> None]

\* A node raised: workflow.invoke raises and run_autonomous_negotiation re-raises.
Failed(st, exc) == [st EXCEPT !.node = "raised", !.error = exc]

\* run_autonomous_negotiation.  Without the langgraph packages the workflow
\* is None and the call raises; with them self.llm is set.
run_autonomous_negotiation(installed, h, rtype, qty, cache) ==
    /\ wf.node = "idle"
    /\ \A c \in Calls : gen[c].pc = "idle"
    /\ wf' = IF installed
             THEN InitialState(h, rtype, qty, cache)
             ELSE [node |-> "raised", error |-> "LangGraph not available"]
    /\ UNCHANGED <<sessions, gen, stream, calls, reads>>

NeedFallback ==
    [priority |-> "high", strategy |-> "competitive",
     max_acceptable_price_per_unit |-> 10000,
     negotiation_approach |-> "Standard negotiation"]

NeedFallbackNoLlm ==
    [priority |-> "high", strategy |-> "competitive",
     max_acceptable_price |-> 10000, reasoning |-> "Automated analysis"]

NeedJsons ==
    { [priority |-> "high", strategy |-> "aggressive",
       max_acceptable_price_per_unit |-> p] : p \in TargetUnitPrices }
    \cup { [priority |-> "high", strategy |-> "flexible"] }
    \cup { [priority |-> "high"] }
    \cup { JsonArray }

\* Node 1
_analyze_need(st, o) ==
    IF ~st.llm
    THEN [st EXCEPT !.need_analysis = NeedFallbackNoLlm, !.analysis_complete = TRUE,
                    !.node = "broadcast_request"]
    ELSE LET r == LlmJson(o, TRUE)
         IN  IF r.decoded /\ IsDict(r.value) /\ "strategy" \in DOMAIN r.value
             THEN [st EXCEPT !.need_analysis = r.value, !.analysis_complete = TRUE,
                             !.current_step = "analyze_need", !.node = "broadcast_request"]
             ELSE \* except Exception; a decoded value without 'strategy' fails in
                  \* the log line, after current_step was set
                  [st EXCEPT !.need_analysis = NeedFallback, !.analysis_complete = TRUE,
                             !.current_step = IF r.decoded THEN "analyze_need" ELSE @,
                             !.node = "broadcast_request"]

\* Node 2: CacheService.set swallows its errors.
_broadcast_request(st) ==
    [st EXCEPT !.broadcast_sent = TRUE, !.current_step = "broadcast_request",
               !.node = "collect_offers"]

\* Node 3: got is what cache_service.get returned for the listed keys, in
\* order, None for a key that expired in between.
Present(v) == v # None

_collect_offers(st, got) ==
    IF st.cache_service = "CacheService"
    THEN Failed(st, "AttributeError")     \* CacheService has no get_keys
    ELSE [st EXCEPT !.offers = IF st.cache_service = "None" THEN <<>>
                               ELSE SelectSeq(got, Present),
                    !.offers_collected = TRUE, !.current_step = "collect_offers",
                    !.node = "evaluate_offers"]

\* sorted(offers, key=lambda x: x.get("total_price", float('inf'))): stable
TotalKey(x) == IF "total_price" \in DOMAIN x THEN x.total_price ELSE Infinity

\* InsertSorted with a fault: an offer goes before the offers of equal price.
RECURSIVE InsertSorted_Unstable(_, _)
InsertSorted_Unstable(sorted, x) ==
    IF sorted = <<>> THEN <<x>>
    ELSE IF TotalKey(x) <= TotalKey(sorted[1])
         THEN <<x>> \o sorted
         ELSE <<sorted[1]>> \o InsertSorted_Unstable(Tail(sorted), x)

RECURSIVE InsertSorted(_, _)
InsertSorted(sorted, x) ==
    IF sorted = <<>> THEN <<x>>
    ELSE IF TotalKey(x) < TotalKey(sorted[1])
         THEN <<x>> \o sorted
         ELSE <<sorted[1]>> \o InsertSorted(Tail(sorted), x)

RECURSIVE SortByTotal(_)
SortByTotal(offers) ==
    IF offers = <<>> THEN <<>>
    ELSE InsertSorted(SortByTotal(SubSeq(offers, 1, Len(offers) - 1)), offers[Len(offers)])

Ranked(h) == [hospital_id |-> h, rank |-> 1, score |-> 90]

\* JSON values an evaluation response may carry.
EvaluationJsons ==
    { [ranked_offers |-> <<Ranked(h)>>, recommendation |-> "negotiate with the first"] :
          h \in {"H002", "H003", "H999"} }
    \cup { [ranked_offers |-> <<>>, recommendation |-> "none suitable"] }
    \cup { [recommendation |-> "unsure"] }
    \cup { JsonArray }

\* Node 4
_evaluate_offers(st, o) ==
    IF st.offers = <<>>
    THEN [st EXCEPT !.offer_evaluations =
                        [ranked_offers |-> <<>>,
                         recommendation |-> "No offers received. Consider expanding search or adjusting requirements."],
                    !.current_step = "evaluate_offers", !.node = "negotiate"]
    ELSE IF ~st.llm
    THEN [st EXCEPT !.offer_evaluations =
                        [ranked_offers |-> SortByTotal(st.offers),
                         top_choice |-> SortByTotal(st.offers)[1]],
                    !.current_step = "evaluate_offers", !.node = "negotiate"]
    ELSE LET r == LlmJson(o, FALSE)
         IN  IF /\ r.decoded
                /\ IsDict(r.value)
                /\ "ranked_offers" \in DOMAIN r.value
                /\ r.value.ranked_offers # <<>>
             THEN [st EXCEPT !.offer_evaluations = r.value,
                             !.current_step = "evaluate_offers", !.node = "negotiate"]
             ELSE \* except Exception: rank by price
                  [st EXCEPT !.offer_evaluations =
                                 [ranked_offers |-> SortByTotal(st.offers),
                                  recommendation |-> "Ranked by price (LLM evaluation failed)"],
                             !.current_step = IF r.decoded THEN "evaluate_offers" ELSE @,
                             !.node = "negotiate"]

\* {**f, **g}
Merge(f, g) == [key \in DOMAIN f \cup DOMAIN g |-> IF key \in DOMAIN g THEN g[key] ELSE f[key]]

\* d.get(key, default)
Get(d, key, default) == IF key \in DOMAIN d THEN d[key] ELSE default

CounterOffers == {6000, 38000}

\* JSON values a negotiation move may carry.
MoveJsons ==
    { [counter_offer |-> p, reasoning |-> "meet in the middle"] : p \in CounterOffers }
    \cup { [counter_offer |-> 38000] }
    \cup { JsonArray }

\* Accepts with a fault: the final round is not forced.
Accepts_NotForced(new_price, target_price, round_num) ==
    new_price * 100 >= target_price * 95

\* The other hospital's response as _negotiate simulates it: accepted within
\* 5% of the target, and on the final round.
Accepts(new_price, target_price, round_num) ==
    IF new_price * 100 >= target_price * 95 THEN TRUE ELSE round_num = 3

\* One pass of the round loop of _negotiate.  moves[n] is what the LLM call
\* of round n gave.  The result carries the rounds recorded, the current
\* price and whether the loop raised: the except branch builds a round
\* without 'their_response', which the line after the append reads.
RECURSIVE NegotiationRounds(_, _, _, _, _, _)
NegotiationRounds(llm, moves, round_num, current_price, target_price, rounds) ==
    IF round_num > 3
    THEN [rounds |-> rounds, current_price |-> current_price, raised |-> FALSE]
    ELSE IF ~llm
    THEN LET new_price  == Max(current_price - Pct(current_price, 5), target_price)
             round_data == [round |-> round_num, our_offer |-> new_price,
                            their_response |-> new_price,
                            accepted |-> (round_num = 3 \/ new_price <= target_price)]
         IN  IF round_data.accepted
             THEN [rounds |-> Append(rounds, round_data), current_price |-> new_price,
                   raised |-> FALSE]
             ELSE NegotiationRounds(llm, moves, round_num + 1, new_price, target_price,
                                    Append(rounds, round_data))
    ELSE LET r == moves[round_num]
         IN  IF /\ r.decoded
                /\ IsDict(r.value)
                /\ "counter_offer" \in DOMAIN r.value
                /\ "reasoning" \in DOMAIN r.value
             THEN LET new_price  == r.value.counter_offer
                      accepted   == Accepts(new_price, target_price, round_num)
                      round_data == [round |-> round_num, our_offer |-> new_price,
                                     reasoning |-> r.value.reasoning,
                                     their_response |-> IF accepted THEN new_price
                                                        ELSE Pct(current_price, 98),
                                     accepted |-> accepted]
                  IN  IF accepted
                      THEN [rounds |-> Append(rounds, round_data),
                            current_price |-> round_data.their_response, raised |-> FALSE]
                      ELSE NegotiationRounds(llm, moves, round_num + 1,
                                             round_data.their_response, target_price,
                                             Append(rounds, round_data))
             ELSE [rounds |-> Append(rounds, [round |-> round_num,
                                              our_offer |-> Pct(current_price, 95),
                                              accepted |-> (round_num = 3)]),
                   current_price |-> current_price, raised |-> TRUE]

\* Node 5
_negotiate(st, moves) ==
    IF Get(st.offer_evaluations, "ranked_offers", <<>>) = <<>>
    THEN [st EXCEPT !.negotiation_complete = TRUE, !.best_offer = None,
                    !.node = "finalize_contract"]
    ELSE LET top_offer     == st.offer_evaluations.ranked_offers[1]
             current_price == Get(top_offer, "total_price", 0)
             target_price  == Get(st.need_analysis, "max_acceptable_price_per_unit", 0)
                                  * st.quantity
             run           == NegotiationRounds(st.llm, moves, 1, current_price,
                                                target_price, <<>>)
             final_offer   ==
                 Merge(top_offer,
                       [negotiated_price |-> run.current_price,
                        original_price |-> Get(top_offer, "total_price", None),
                        savings |-> Get(top_offer, "total_price", 0) - run.current_price,
                        negotiation_rounds |-> Len(run.rounds)])
         IN  IF run.raised
             THEN Failed(st, "KeyError")
             ELSE [st EXCEPT !.negotiation_rounds = run.rounds,
                             !.best_offer = final_offer,
                             !.negotiation_complete = TRUE,
                             !.current_step = "negotiate",
                             !.node = "finalize_contract"]

\* random.randint(1000, 9999) of the contract id
ContractSerials == {1000, 9999}

\* The contract of node 6.  unit_price is negotiated_price / quantity, kept as
\* the fraction.
Contract(st, serial) ==
    LET best_offer == st.best_offer
    IN  [contract_id |-> <<"contract", "today", serial>>,
         requesting_hospital |-> st.requesting_hospital,
         supplying_hospital |-> Get(best_offer, "hospital_id", None),
         resource_type |-> st.resource_type,
         quantity |-> st.quantity,
         unit_price |-> [num |-> best_offer.negotiated_price, den |-> st.quantity],
         total_price |-> best_offer.negotiated_price,
         quality_standards |-> Get(best_offer, "quality_certification", "Standard"),
         payment_terms |-> "Net 30 days",
         status |-> "pending_signature",
         negotiation_summary |->
             [original_price |-> best_offer.original_price,
              final_price |-> best_offer.negotiated_price,
              savings |-> best_offer.savings,
              rounds |-> best_offer.negotiation_rounds]]

\* _finalize_contract with a fault: a failed write fails the node.
_finalize_contract_Strict(st, serial, written) ==
    IF st.best_offer = None
    THEN [st EXCEPT !.contract_finalized = FALSE, !.node = "notify"]
    ELSE IF st.cache_service # "None" /\ ~written
    THEN Failed(st, "LedgerError")
    ELSE [st EXCEPT !.ledger = IF st.cache_service # "None"
                               THEN Put(@, Contract(st, serial).contract_id,
                                        Contract(st, serial))
                               ELSE @,
                    !.final_contract = Contract(st, serial), !.contract_finalized = TRUE,
                    !.current_step = "finalize_contract", !.node = "notify"]

\* Node 6.  written is what cache_service.set returned: CacheService.set
\* catches every exception of the write and returns False, and the node does
\* not look at the result.
_finalize_contract(st, serial, written) ==
    IF st.best_offer = None
    THEN [st EXCEPT !.contract_finalized = FALSE, !.node = "notify"]
    ELSE [st EXCEPT !.ledger = IF st.cache_service # "None" /\ written
                               THEN Put(@, Contract(st, serial).contract_id,
                                        Contract(st, serial))
                               ELSE @,
                    !.final_contract = Contract(st, serial), !.contract_finalized = TRUE,
                    !.current_step = "finalize_contract", !.node = "notify"]

\* datetime.now().isoformat() and the elapsed seconds: set, the value is not modelled
Now == [iso |-> TRUE]

Elapsed == [seconds |-> TRUE]

SuccessNotification(contract) ==
    [type |-> "success", title |-> "Negotiation Complete!",
     contract_id |-> contract.contract_id,
     details |-> [supplier |-> contract.supplying_hospital,
                  total_cost |-> contract.total_price,
                  savings |-> contract.negotiation_summary.savings],
     action_required |-> "Review and sign contract"]

ErrorNotification ==
    [type |-> "error", title |-> "Negotiation Failed",
     message |-> "Unable to secure resources. No suitable offers received.",
     action_required |-> "Review requirements and try again"]

\* _notify with a fault: a run without contract is not notified.
_notify_SuccessOnly(st) ==
    [st EXCEPT !.notifications =
                   IF st.final_contract # None
                   THEN Append(@, SuccessNotification(st.final_contract))
                   ELSE @,
               !.completed_at = Now, !.total_time_seconds = Elapsed,
               !.node = "END"]

\* _notify with a fault: the notification type follows negotiation_complete,
\* not the presence of a contract.
_notify_ByCompletion(st) ==
    [st EXCEPT !.notifications =
                   Append(@, IF st.negotiation_complete
                             THEN [type |-> "success", title |-> "Negotiation Complete!"]
                             ELSE ErrorNotification),
               !.completed_at = Now, !.total_time_seconds = Elapsed,
               !.node = "END"]

\* Node 7
_notify(st) ==
    [st EXCEPT !.notifications =
                   Append(@, IF st.final_contract # None
                             THEN SuccessNotification(st.final_contract)
                             ELSE ErrorNotification),
               !.completed_at = Now, !.total_time_seconds = Elapsed,
               !.node = "END"]

\* The steps of one workflow run.
Requesters == {"H001"}

\* What the store holds under offer:<requester>:* when the keys are read.
StoreValues ==
    { StoredOffer("H002", 40000, "ventilators") }
    \cup { StoredOffer("H003", t, "ventilators") : t \in OfferTotals }
    \cup { [hospital_id |-> "H003", resource_type |-> "ventilators"] }
    \cup { None }

MaxStored == 2

StoreReads == UNION { [1..n -> StoreValues] : n \in 0..MaxStored }

MoveResults == { LlmJson(o, FALSE) : o \in OracleOutcomes(MoveJsons) }

Unchanged_MA == UNCHANGED <<sessions, gen, stream, calls, reads>>

\* A contract an earlier run of the same day wrote to the store.
EarlierContract ==
    [contract_id |-> <<"contract", "today", 1000>>,
     requesting_hospital |-> "H001", supplying_hospital |-> "H004",
     resource_type |-> "icu_beds", quantity |-> 1,
     unit_price |-> [num |-> 30000, den |-> 1], total_price |-> 30000,
     quality_standards |-> "Standard", payment_terms |-> "Net 30 days",
     status |-> "pending_signature",
     negotiation_summary |->
         [original_price |-> 30000, final_price |-> 30000, savings |-> 0, rounds |-> 1]]

\* What the store holds under contract:* when the contract of a run is written.
StoredContracts(cache) ==
    IF cache = "None" THEN {EmptyLedger}
    ELSE {EmptyLedger, Put(EmptyLedger, EarlierContract.contract_id, EarlierContract)}

RunWorkflow ==
    \E installed \in BOOLEAN, h \in Requesters, r \in ResourceTypes, q \in 1..MaxQty,
       cache \in CacheKinds :
        run_autonomous_negotiation(installed, h, r, q, cache)

AnalyzeNeed ==
    /\ wf.node = "analyze_need"
    /\ \E o \in OracleOutcomes(NeedJsons) : wf' = _analyze_need(wf, o)
    /\ Unchanged_MA

BroadcastRequest ==
    /\ wf.node = "broadcast_request"
    /\ wf' = _broadcast_request(wf)
    /\ Unchanged_MA

CollectOffers ==
    /\ wf.node = "collect_offers"
    /\ \E got \in StoreReads : wf' = _collect_offers(wf, got)
    /\ Unchanged_MA

EvaluateOffers ==
    /\ wf.node = "evaluate_offers"
    /\ \E o \in OracleOutcomes(EvaluationJsons) : wf' = _evaluate_offers(wf, o)
    /\ Unchanged_MA

NegotiateStep ==
    /\ wf.node = "negotiate"
    /\ \E moves \in [1..3 -> MoveResults] : wf' = _negotiate(wf, moves)
    /\ Unchanged_MA

FinalizeContract ==
    /\ wf.node = "finalize_contract"
    /\ \E serial \in ContractSerials, written \in BOOLEAN,
          stored \in StoredContracts(wf.cache_service) :
           wf' = _finalize_contract([wf EXCEPT !.ledger = stored], serial, written)
    /\ Unchanged_MA

Notify ==
    /\ wf.node = "notify"
    /\ wf' = _notify(wf)
    /\ Unchanged_MA

Workflow ==
    \/ RunWorkflow
    \/ AnalyzeNeed
    \/ BroadcastRequest
    \/ CollectOffers
    \/ EvaluateOffers
    \/ NegotiateStep
    \/ FinalizeContract
    \/ Notify

----------------------------------------------------------------------------
\* The query surface: GET /sessions/{session_id}.

\* Session ids a caller may ask for: the ids of the calls (an id names a
\* session only once its call has created it) and an id never handed out.
SessionIds == DOMAIN gen \cup {"s-unknown"}

\* self.sessions.get(session_id)
get_session(session_id) ==
    IF session_id \in DOMAIN sessions THEN sessions[session_id] ELSE None

NotFound == [status_code |-> 404, detail |-> "Session not found"]

\* The body of the 200 response.
SessionDetails(session) ==
    [success |-> TRUE,
     session |-> [id |-> session.session_id,
                  status |-> session.status,
                  initiator |-> session.initiator_hospital,
                  participants |-> session.participant_hospitals,
                  request |-> [resource_type |-> session.request.resource_type,
                               quantity |-> session.request.quantity],
                  offers_count |-> Len(session.offers),
                  messages_count |-> Len(session.messages),
                  final_agreement |-> session.final_agreement]]

\* get_session_details with a fault: from the second read on, the decision
\* is made anew and fails.
get_session_details_Regenerated(session_id) ==
    LET session == get_session(session_id)
    IN  IF session = None THEN NotFound
        ELSE IF reads = <<>> THEN SessionDetails(session)
        ELSE SessionDetails([session EXCEPT !.final_agreement = DecisionError])

\* if not session: raise HTTPException(status_code=404, ...)
get_session_details(session_id) ==
    LET session == get_session(session_id)
    IN  IF session = None THEN NotFound ELSE SessionDetails(session)

\* A GET is served.  The model serves it when no POST /negotiate response is
\* being streamed (every response has ended or was cut off).
GetSessionDetails(session_id) ==
    /\ \A c \in DOMAIN gen : gen[c].pc = "closed" \/ gen[c].consumer = "detached"
    /\ Len(reads) < MaxReads
    /\ reads' = Append(reads, [session_id |-> session_id,
                               response |-> get_session_details(session_id)])
    /\ UNCHANGED <<sessions, gen, stream, calls, wf>>

Query == \E id \in SessionIds : GetSessionDetails(id)

Next ==
    \/ \E c \in Calls : NegotiateCall(c)
    \/ Workflow
    \/ Query

Spec == Init /\ [][Next]_vars

----------------------------------------------------------------------------
\* Two POST /negotiate calls served by the one event loop.  Each call runs its
\* own generator; a step of the system is a step of one of them, in any order.
\* The requests and the oracle outcomes range over smaller sets here.

Calls2 == {"c1", "c2"}

Init2 ==
    /\ sessions = <<>>
    /\ gen = [c \in Calls2 |-> IdleFrame]
    /\ stream = [c \in Calls2 |-> <<>>]
    /\ calls = [c \in Calls2 |-> [analyze |-> 0, negotiate |-> 0, decide |-> 0]]
    /\ wf = [node |-> "idle"]
    /\ reads = <<>>

Initiators2 == {"HOSP_A", "HOSP_B"}

AnalysisOutcomes2 ==
    { [kind |-> "raise"],
      [kind |-> "content", content |-> <<JsonText(Helpful(1, 5000))>>],
      [kind |-> "content", content |-> <<JsonText(JsonArray)>>] }

NegotiationOutcomes2 ==
    { [kind |-> "raise"],
      [kind |-> "content", content |-> <<JsonText([adjust_offer |-> TRUE])>>] }

NegotiateCall2(c) ==
        \/ \E h \in Initiators2 : Start(c, h, "ventilators", 1)
        \/ Broadcast(c)
        \/ Sleep(c)
        \/ Collect(c)
        \/ CallAnalyze(c)
        \/ \E o \in AnalysisOutcomes2 : AnalyzeReturns(c, o)
        \/ NextParticipant(c)
        \/ Negotiate(c)
        \/ \E o \in NegotiationOutcomes2 : NegotiateReturns(c, o)
        \/ NextOffer(c)
        \/ Decide(c)
        \/ DecisionReturns(c)
        \/ StreamComplete(c)
        \/ Disconnect(c)

\* The session a caller reads while both negotiations run.
SessionIds2 == {"c1"}

Query2 == \E id \in SessionIds2 : GetSessionDetails(id)

Next2 ==
    \/ \E c \in Calls2 : NegotiateCall2(c)
    \/ Query2

Spec2 == Init2 /\ [][Next2]_vars

----------------------------------------------------------------------------
\* Properties.

StatusOrder ==
    <<"initiated", "broadcasting", "collecting_responses", "negotiating",
      "deciding", "completed">>

Rank(status) ==
    IF status = "failed" THEN Len(StatusOrder) + 1
    ELSE CHOOSE n \in 1..Len(StatusOrder) : StatusOrder[n] = status

HasEvent(c, kind) == \E n \in 1..Len(stream[c]) : stream[c][n].event = kind

\* C1: the status of a session only moves forward through initiated,
\* broadcasting, collecting_responses, negotiating, deciding, completed, one
\* phase at a time except that negotiating may be skipped; a session that was
\* in negotiating is therefore never seen again in collecting_responses or
\* earlier.  A session is created in status initiated.
C1_StatusMonotonic ==
    [][ \A c \in DOMAIN sessions' :
          IF c \in DOMAIN sessions
          THEN LET a == Rank(sessions[c].status)
                   b == Rank(sessions'[c].status)
               IN  \/ b = a
                   \/ b = a + 1
                   \/ a = Rank("collecting_responses") /\ b = Rank("deciding")
          ELSE sessions'[c].status = "initiated" ]_vars

\* A session past the negotiating phase.
C1_Witness ==
    \E c \in DOMAIN sessions :
        /\ sessions[c].status = "completed"
        /\ HasEvent(c, "negotiation_round_started")

RegistryIndex(h) == CHOOSE n \in 1..Len(AgentIds) : AgentIds[n] = h

InRegistryOrder(hs) ==
    \A m, n \in 1..Len(hs) : m < n => RegistryIndex(hs[m]) < RegistryIndex(hs[n])

\* The events initiate_negotiation yields (the route adds error and stream_complete).
IsProgressEvent(e) == e.event \notin {"error", "stream_complete"}

Yielded(c) == SelectSeq(stream[c], IsProgressEvent)

\* The event at position n of a negotiation among participants ps is the one
\* the phase order prescribes.
EventInOrder(events, ps, n) ==
    LET kind == events[n].event
        last == 2 + 2 * Len(ps)
    IN  IF n = 1 THEN kind = "negotiation_initiated"
        ELSE IF n = 2 THEN kind = "broadcasting_request"
        ELSE IF n <= last /\ n % 2 = 1
        THEN /\ kind = "agent_analyzing"
             /\ events[n].agent = hospital_name(ps[(n - 1) \div 2])
        ELSE IF n <= last
        THEN /\ kind \in {"offer_received", "offer_declined"}
             /\ events[n].agent = hospital_name(ps[(n - 2) \div 2])
        ELSE LET first == (n = last + 1)
                 prev  == events[n - 1].event
             IN  CASE kind = "negotiation_round_started" -> first
                   [] kind = "offer_adjusted" ->
                        ~first /\ prev \in {"negotiation_round_started", "offer_adjusted"}
                   [] kind = "making_decision" ->
                        first \/ prev \in {"negotiation_round_started", "offer_adjusted"}
                   [] kind = "negotiation_completed" -> ~first /\ prev = "making_decision"
                   [] OTHER -> FALSE

\* C2: the events of a negotiation are yielded in the order
\* negotiation_initiated, broadcasting_request, then per participant in
\* registry order agent_analyzing followed at once by offer_received or
\* offer_declined of the same agent, then optionally
\* negotiation_round_started with its offer_adjusted events, then
\* making_decision, then negotiation_completed: at every moment the events
\* yielded so far are a prefix of such a sequence, and the sequence of a
\* completed session is a whole one.
C2_EventOrder ==
    \A c \in DOMAIN sessions :
        LET events == Yielded(c)
            ps     == sessions[c].participant_hospitals
        IN  /\ InRegistryOrder(ps)
            /\ \A n \in 1..Len(events) : EventInOrder(events, ps, n)
            /\ sessions[c].status = "completed" =>
                   /\ Len(events) > 0
                   /\ events[Len(events)].event = "negotiation_completed"

C2_Witness ==
    \E c \in DOMAIN sessions :
        /\ sessions[c].status = "completed"
        /\ HasEvent(c, "offer_adjusted")
        /\ HasEvent(c, "offer_declined") \/ HasEvent(c, "offer_received")

Terminal == {"negotiation_completed", "error"}

TerminalPositions(c) == {n \in 1..Len(stream[c]) : stream[c][n].event \in Terminal}

LastEvent(c) == stream[c][Len(stream[c])].event

\* C3, as claimed: a stream consumed to its end holds exactly one terminal
\* event, which is its last event: negotiation_completed when the run had no
\* fault, error when it had one.
C3_TerminalIsLast ==
    \A c \in Calls :
        gen[c].pc = "closed" =>
            /\ Cardinality(TerminalPositions(c)) = 1
            /\ LastEvent(c) = IF gen[c].fault = "none" THEN "negotiation_completed" ELSE "error"

\* C3, amended: every stream holds at most one terminal event, and a stream
\* consumed to its end exactly one; error is the last event of its stream,
\* and negotiation_completed is followed by the stream_complete event of the
\* route and by nothing else.
C3_TerminalThenStreamComplete ==
    \A c \in Calls :
        LET events == stream[c]
            len    == Len(events)
        IN  /\ Cardinality(TerminalPositions(c)) <= 1
            /\ \A n \in TerminalPositions(c) :
                   \/ n = len
                   \/ /\ n = len - 1
                      /\ events[n].event = "negotiation_completed"
                      /\ events[len].event = "stream_complete"
            /\ gen[c].pc = "closed" =>
                   /\ Cardinality(TerminalPositions(c)) = 1
                   /\ IF gen[c].fault = "none"
                      THEN /\ len >= 2
                           /\ events[len - 1].event = "negotiation_completed"
                           /\ events[len].event = "stream_complete"
                      ELSE events[len].event = "error"

\* A stream consumed to its end after a faultless run.
C3_Witness ==
    \E c \in Calls :
        /\ gen[c].pc = "closed"
        /\ gen[c].fault = "none"
        /\ HasEvent(c, "negotiation_completed")

\* C4: a fault raised inside a phase moves the session to status failed and
\* ends the stream with an error event, so that no session stays in
\* broadcasting, collecting_responses, negotiating or deciding after a fault.
C4_FaultFailsSession ==
    \A c \in DOMAIN sessions :
        gen[c].fault # "none" =>
            /\ sessions[c].status = "failed"
            /\ LastEvent(c) = "error"

HasOfferFields(j) ==
    {"quantity_available", "proposed_price_per_unit"} \subseteq DOMAIN j

\* A judgment as the prompt of analyze_request asks for it.
ValidJudgment(j) ==
    /\ IsDict(j)
    /\ {"can_help", "confidence"} \subseteq DOMAIN j
    /\ j.can_help => HasOfferFields(j)

ConservativeDenial(j) ==
    /\ IsDict(j)
    /\ {"can_help", "confidence"} \subseteq DOMAIN j
    /\ j.can_help = FALSE
    /\ j.confidence = 0

\* C5: analyze_request never raises, and what it returns for an oracle output
\* that is no valid judgment is the denial can_help=false, confidence=0.  The
\* judgments analyze_request returned are the contents of session.messages.
C5_MalformedIsDenied ==
    \A c \in DOMAIN sessions :
        \A n \in 1..Len(sessions[c].messages) :
            LET j == sessions[c].messages[n].content
            IN  ValidJudgment(j) \/ ConservativeDenial(j)

\* A judgment that decoded but cannot make an offer.
InvalidDecoded(j) ==
    \/ ~IsDict(j)
    \/ Truthy(j, "can_help") /\ ~HasOfferFields(j)

\* C6: a judgment that decodes but is invalid is a denial of that participant
\* only: offer_declined is yielded for it right after its agent_analyzing and
\* the negotiation goes on without a fault.
C6_InvalidJudgmentDeclines ==
    \A c \in DOMAIN sessions :
        \A n \in 1..Len(sessions[c].messages) :
            InvalidDecoded(sessions[c].messages[n].content) =>
                /\ gen[c].fault = "none"
                /\ Len(stream[c]) >= 2 * n + 2
                /\ stream[c][2 * n + 2].event = "offer_declined"

MalformedCounter(r) ==
    \/ ~IsDict(r)
    \/ Truthy(r, "adjust_offer") /\ "new_price_per_unit" \notin DOMAIN r

\* C7: a malformed output of a negotiate call is taken as no adjustment: no
\* fault leaves the negotiating phase and no offer_adjusted is yielded for it.
C7_MalformedCounterIsNoAdjustment ==
    \A c \in DOMAIN sessions :
        LET r == gen[c].negotiation_result
        IN  (r # None /\ MalformedCounter(r)) =>
                /\ gen[c].fault = "none"
                /\ gen[c].pc # "y_adjusted"

CanHelp(m) == IsDict(m.content) /\ Truthy(m.content, "can_help")

IsOfferReceived(e) == e.event = "offer_received"

\* C8: the offers of a session are, in order, one offer for each analyzed
\* participant whose judgment had can_help=true, and the offer_received
\* events are, in order, the events of these offers.
C8_OffersAreHelpfulJudgments ==
    \A c \in DOMAIN sessions :
        LET helpful  == SelectSeq(sessions[c].messages, CanHelp)
            offers   == sessions[c].offers
            received == SelectSeq(stream[c], IsOfferReceived)
        IN  /\ Len(offers) = Len(helpful)
            /\ \A n \in 1..Len(offers) : offers[n].hospital_id = helpful[n].from
            /\ Len(received) = Len(offers)
            /\ \A n \in 1..Len(offers) : received[n].offer = offers[n]

IsOfferAdjusted(e) == e.event = "offer_adjusted"

OfferIndex(offers, name) ==
    CHOOSE k \in 1..Len(offers) : offers[k].hospital_name = name

\* C9: a session is in negotiating, and negotiation_round_started was
\* yielded, exactly when two or more offers were collected; with fewer it
\* goes from collecting_responses to deciding.  negotiate is called at most
\* once per offer, and the offer_adjusted events lie between
\* negotiation_round_started and making_decision, at most one per offer, in
\* offer order.
C9_NegotiationNeedsCompetition ==
    \A c \in DOMAIN sessions :
        LET status   == sessions[c].status
            offers   == sessions[c].offers
            events   == stream[c]
            started  == HasEvent(c, "negotiation_round_started")
            adjusted == SelectSeq(events, IsOfferAdjusted)
        IN  /\ status \in {"initiated", "broadcasting", "collecting_responses"} => ~started
            /\ status = "negotiating" => started /\ Len(offers) >= 2
            /\ status \in {"deciding", "completed"} => (started <=> Len(offers) >= 2)
            /\ calls[c].negotiate <= Len(offers)
            /\ calls[c].negotiate = gen[c].k
            /\ ~started => calls[c].negotiate = 0
            /\ \A n \in 1..Len(events) :
                   events[n].event = "offer_adjusted" =>
                       /\ \E m \in 1..(n - 1) : events[m].event = "negotiation_round_started"
                       /\ \A m \in 1..(n - 1) : events[m].event # "making_decision"
            /\ \A m, n \in 1..Len(adjusted) :
                   m < n => OfferIndex(offers, adjusted[m].agent) < OfferIndex(offers, adjusted[n].agent)

\* Two offers, both adjusted in the negotiating phase.
C9_Witness ==
    \E c \in DOMAIN sessions :
        /\ sessions[c].status = "deciding"
        /\ Len(sessions[c].offers) = 2
        /\ Len(SelectSeq(stream[c], IsOfferAdjusted)) = 2

\* One offer: the negotiating phase is skipped.
C9_WitnessSkipped ==
    \E c \in DOMAIN sessions :
        /\ sessions[c].status = "deciding"
        /\ Len(sessions[c].offers) = 1

Denies(m) == IsDict(m.content) /\ ~Truthy(m.content, "can_help")

\* Every participant of the session was analyzed and denied help.
AllDenied(c) ==
    /\ Len(sessions[c].messages) = Len(sessions[c].participant_hospitals)
    /\ \A n \in 1..Len(sessions[c].messages) : Denies(sessions[c].messages[n])

\* The workflow run has collected its offers and there are none.
NoOffersCollected ==
    /\ "offers_collected" \in DOMAIN wf
    /\ wf.offers_collected
    /\ wf.offers = <<>>

\* C10: when every participant of a session denied help there is no offer,
\* no exception left the generator, neither the negotiate nor the decision
\* oracle is called and the negotiating phase is skipped; the generator goes
\* from the last offer_declined to making_decision to negotiation_completed,
\* and from then on the session is completed with a final agreement that has
\* success false, a non-empty list of recommendations and no selected offer.
\* In the workflow, a run that collected zero offers ranks nothing, records
\* no round, has no best offer and no contract, does not raise, and ends with
\* exactly one notification, of type error.
C10_NoOffersStillCompletes ==
    /\ \A c \in DOMAIN sessions :
           AllDenied(c) =>
               LET sess == sessions[c]
               IN  /\ sess.offers = <<>>
                   /\ gen[c].fault = "none"
                   /\ calls[c].negotiate = 0
                   /\ calls[c].decide = 0
                   /\ ~HasEvent(c, "negotiation_round_started")
                   /\ ~HasEvent(c, "error")
                   /\ gen[c].pc \in {"y_offer", "y_deciding", "y_completed", "closed"}
                   /\ gen[c].pc = "y_offer" => sess.status = "collecting_responses"
                   /\ gen[c].pc = "y_deciding" => sess.status = "deciding"
                   /\ gen[c].pc \in {"y_completed", "closed"} =>
                          /\ sess.status = "completed"
                          /\ HasEvent(c, "negotiation_completed")
                          /\ sess.final_agreement # None
                          /\ sess.final_agreement.success = FALSE
                          /\ "recommendations" \in DOMAIN sess.final_agreement
                          /\ Len(sess.final_agreement.recommendations) > 0
                          /\ "selected_offers" \notin DOMAIN sess.final_agreement
                   /\ sess.status # "completed" => sess.final_agreement = None
    /\ NoOffersCollected =>
           /\ wf.node \in {"evaluate_offers", "negotiate", "finalize_contract", "notify", "END"}
           /\ wf.node # "evaluate_offers" => wf.offer_evaluations.ranked_offers = <<>>
           /\ wf.negotiation_rounds = <<>>
           /\ wf.best_offer = None
           /\ wf.final_contract = None
           /\ ~wf.contract_finalized
           /\ wf.node \in {"finalize_contract", "notify", "END"} => wf.negotiation_complete
           /\ wf.node # "END" => wf.notifications = <<>>
           /\ wf.node = "END" =>
                  /\ Len(wf.notifications) = 1
                  /\ wf.notifications[1].type = "error"

\* A call in which both participants declined ran to the end of its stream.
C10_Witness ==
    \E c \in DOMAIN sessions :
        /\ AllDenied(c)
        /\ sessions[c].status = "completed"
        /\ gen[c].pc = "closed"

\* A workflow run whose store held no readable offer reached END.
C10_WitnessWorkflow ==
    /\ NoOffersCollected
    /\ wf.cache_service = "Store"
    /\ wf.node = "END"

Helps(m) == IsDict(m.content) /\ Truthy(m.content, "can_help")

\* Every participant of the session was analyzed and offered help.
AllHelped(c) ==
    /\ Len(sessions[c].messages) = Len(sessions[c].participant_hospitals)
    /\ \A n \in 1..Len(sessions[c].messages) : Helps(sessions[c].messages[n])

RECURSIVE SumQuantity(_)
SumQuantity(items) ==
    IF items = <<>> THEN 0 ELSE items[1].quantity + SumQuantity(Tail(items))

\* The final agreement of a session is a contract: a decision with success
\* true (as opposed to None and to the failure decisions).
HasContract(c) ==
    /\ IsDict(sessions[c].final_agreement)
    /\ Truthy(sessions[c].final_agreement, "success")

\* C11: a completed session in which both participants helped (two offers)
\* holds a contract that selects at least one offer, and the selected
\* quantities add up to the requested quantity whenever the quantities of
\* all offers do.
C11_HelpfulAgentsYieldContract ==
    \A c \in DOMAIN sessions :
        (AllHelped(c) /\ sessions[c].status = "completed") =>
            LET sess == sessions[c]
                fa   == sess.final_agreement
            IN  /\ Len(sess.offers) >= 2
                /\ HasContract(c)
                /\ "selected_offers" \in DOMAIN fa
                /\ fa.selected_offers # <<>>
                /\ SumQuantity(fa.selected_offers) <= SumQuantity(sess.offers)
                /\ SumQuantity(sess.offers) >= sess.request.quantity =>
                       SumQuantity(fa.selected_offers) >= sess.request.quantity

\* C11, the decision oracle answering with a selection: the contract may
\* still fall short of a quantity the offers could fulfil.
C11_SelectionFulfilsRequest ==
    \A c \in DOMAIN sessions :
        (/\ AllHelped(c)
         /\ sessions[c].status = "completed"
         /\ HasContract(c)
         /\ "selected_offers" \in DOMAIN sessions[c].final_agreement
         /\ SumQuantity(sessions[c].offers) >= sessions[c].request.quantity)
        => SumQuantity(sessions[c].final_agreement.selected_offers)
               >= sessions[c].request.quantity

\* The offers the final agreement of a session accepted.
AcceptedOffers(c) ==
    IF IsDict(sessions[c].final_agreement) /\ "selected_offers" \in DOMAIN sessions[c].final_agreement
    THEN sessions[c].final_agreement.selected_offers
    ELSE <<>>

\* The last round the workflow recorded was accepted.
RoundAccepted ==
    /\ wf.negotiation_rounds # <<>>
    /\ wf.negotiation_rounds[Len(wf.negotiation_rounds)].accepted

\* C12: a session holds a contract exactly when it is completed and its
\* final agreement accepted at least one offer; a workflow run holds a final
\* contract exactly when it is past finalize_contract with a best offer whose
\* last negotiation round was accepted.
C12_ContractIffCompletedAndAccepted ==
    /\ \A c \in DOMAIN sessions :
           HasContract(c) <=>
               (sessions[c].status = "completed" /\ AcceptedOffers(c) # <<>>)
    /\ "final_contract" \in DOMAIN wf =>
           (wf.final_contract # None <=>
               /\ wf.node \in {"notify", "END"}
               /\ wf.best_offer # None
               /\ RoundAccepted)

\* C12, without the accepted offers: final_agreement is set exactly when the
\* status is completed, and the workflow part as above.
C12_AgreementIffCompleted ==
    /\ \A c \in DOMAIN sessions :
           sessions[c].final_agreement # None <=> sessions[c].status = "completed"
    /\ "final_contract" \in DOMAIN wf =>
           (wf.final_contract # None <=>
               /\ wf.node \in {"notify", "END"}
               /\ wf.best_offer # None
               /\ RoundAccepted)

\* C13: a session whose consumer detached is completed or failed, or a step
\* of its negotiation can be taken without the consumer; otherwise it stays
\* in its status for ever.
C13_DetachedSessionCompletes ==
    \A c \in DOMAIN sessions :
        gen[c].consumer = "detached" =>
            \/ sessions[c].status \in {"completed", "failed"}
            \/ ENABLED NegotiateCall(c)

\* C13, the part that holds: no step taken while the consumer of a call is
\* detached changes the session of that call.
C13_DetachedSessionKept ==
    [][\A c \in DOMAIN sessions :
           gen[c].consumer = "detached" =>
               (c \in DOMAIN sessions' /\ sessions'[c] = sessions[c])]_vars

\* C14: for every offer_adjusted event of a session the offer of that agent
\* carries the adjustment: its price is the new price and its conditions are
\* the new conditions the adjustment names.
C14_AdjustmentAppliedInPlace ==
    \A c \in DOMAIN sessions :
        \A n \in 1..Len(stream[c]) :
            IsOfferAdjusted(stream[c][n]) =>
                LET adjustment == stream[c][n].adjustment
                    offer      == sessions[c].offers[OfferIndex(sessions[c].offers,
                                                                stream[c][n].agent)]
                IN  /\ "new_price_per_unit" \in DOMAIN adjustment =>
                           offer.price_per_unit = adjustment.new_price_per_unit
                    /\ "new_conditions" \in DOMAIN adjustment =>
                           offer.conditions = adjustment.new_conditions

\* C14, the part that holds: the negotiating phase leaves the offers as
\* they were collected.
C14_OffersKeptWhileNegotiating ==
    [][\A c \in DOMAIN sessions :
           sessions[c].status \in {"negotiating", "deciding", "completed"} =>
               sessions'[c].offers = sessions[c].offers]_vars

\* ranked is offers in ascending order of total price, offers of equal
\* price in the order they have in offers.
IsStableSortByTotal(ranked, offers) ==
    /\ Len(ranked) = Len(offers)
    /\ \E perm \in [1..Len(offers) -> 1..Len(offers)] :
           /\ \A m, n \in 1..Len(offers) : m # n => perm[m] # perm[n]
           /\ \A n \in 1..Len(offers) : ranked[n] = offers[perm[n]]
           /\ \A m, n \in 1..Len(offers) :
                  m < n =>
                      \/ TotalKey(ranked[m]) < TotalKey(ranked[n])
                      \/ TotalKey(ranked[m]) = TotalKey(ranked[n]) /\ perm[m] < perm[n]

\* The evaluation of the run fell back to the ranking by price.
RankedByPrice ==
    /\ "offer_evaluations" \in DOMAIN wf
    /\ "recommendation" \in DOMAIN wf.offer_evaluations
    /\ wf.offer_evaluations.recommendation = "Ranked by price (LLM evaluation failed)"

\* The example of the ranking fallback.
OfferB == [hospital_id |-> "B", total_price |-> 15000]

OfferC == [hospital_id |-> "C", total_price |-> 31500]

\* What _evaluate_offers gives for the state at hand when self.llm is None
\* (no run reaches the node in that configuration: without the LLM class the
\* workflow is None as well).
EvaluatedWithoutLlm == _evaluate_offers([wf EXCEPT !.llm = FALSE], [kind |-> "raise"])

\* C15: when the evaluation call fails, and when there is no LLM, the ranked
\* offers are the collected offers in a stable ascending order of total
\* price; without LLM the top choice is the first of them; the offer that is
\* negotiated is the first-ranked one; B (15000) is ranked before C (31500)
\* whatever their arrival order.
C15_FallbackRanksByPrice ==
    /\ RankedByPrice =>
           /\ IsStableSortByTotal(wf.offer_evaluations.ranked_offers, wf.offers)
           /\ (wf.node \in {"finalize_contract", "notify", "END"}) =>
                  /\ wf.best_offer # None
                  /\ \A key \in DOMAIN wf.offer_evaluations.ranked_offers[1] :
                         wf.best_offer[key] = wf.offer_evaluations.ranked_offers[1][key]
    /\ (wf.node = "evaluate_offers" /\ wf.offers # <<>>) =>
           /\ IsStableSortByTotal(EvaluatedWithoutLlm.offer_evaluations.ranked_offers, wf.offers)
           /\ EvaluatedWithoutLlm.offer_evaluations.top_choice
                  = EvaluatedWithoutLlm.offer_evaluations.ranked_offers[1]
    /\ SortByTotal(<<OfferB, OfferC>>) = <<OfferB, OfferC>>
    /\ SortByTotal(<<OfferC, OfferB>>) = <<OfferB, OfferC>>

\* The evaluation call failed on two different offers of equal total price
\* and the run negotiated a contract with the one that arrived first.
C15_Witness ==
    /\ RankedByPrice
    /\ wf.node = "END"
    /\ Len(wf.offers) = 2
    /\ wf.offers[1] # wf.offers[2]
    /\ TotalKey(wf.offers[1]) = TotalKey(wf.offers[2])
    /\ wf.final_contract # None
    /\ wf.final_contract.supplying_hospital = wf.offers[1].hospital_id

\* The run is about to negotiate and has a ranked offer.
ReadyToNegotiate ==
    /\ wf.node = "negotiate"
    /\ Get(wf.offer_evaluations, "ranked_offers", <<>>) # <<>>

\* What _negotiate gives for the state at hand when self.llm is None, the
\* need analysis being the one _analyze_need gives without LLM (no run
\* reaches the node in that configuration: without the LLM class the workflow
\* is None as well).  No move is read.
NegotiatedWithoutLlm ==
    _negotiate([wf EXCEPT !.llm = FALSE, !.need_analysis = NeedFallbackNoLlm], <<>>)

StartingPrice == Get(wf.offer_evaluations.ranked_offers[1], "total_price", 0)

\* The price a round starts from.
PriceBefore(rounds, n, start) == IF n = 1 THEN start ELSE rounds[n - 1].their_response

\* Each round asks for exactly 95% of the price before it and is answered
\* with the price asked.
ReducesFivePercent(rounds, start) ==
    \A n \in 1..Len(rounds) :
        /\ rounds[n].round = n
        /\ rounds[n].our_offer * 100 = PriceBefore(rounds, n, start) * 95
        /\ rounds[n].their_response = rounds[n].our_offer

\* Target prices to run the round loop against.
TargetPrices == {0} \cup { p * q : p \in TargetUnitPrices, q \in 1..MaxQty } \cup OfferTotals

\* The example of the negotiation fallback, in half rupees: 100000 gives
\* 95000, 90250 and 85737.5.
HalfRupees(x) == 2 * x

ExampleRounds == NegotiationRounds(FALSE, <<>>, 1, HalfRupees(100000), 0, <<>>).rounds

\* C16: without LLM the negotiate step takes 5% off the current price in
\* every round (the need analysis made without LLM carries no
\* max_acceptable_price_per_unit, so the target price is 0); a starting price
\* above 0 gives three rounds of which only the third is accepted; whatever
\* the target price, no more than three rounds are recorded and a third round
\* is accepted; 100000 gives 95000 after round 1 and 90250 after round 2.
C16_FallbackReducesFivePercent ==
    /\ ReadyToNegotiate =>
           LET rounds == NegotiatedWithoutLlm.negotiation_rounds
           IN  /\ NegotiatedWithoutLlm.node = "finalize_contract"
               /\ ReducesFivePercent(rounds, StartingPrice)
               /\ Len(rounds) \in 1..3
               /\ StartingPrice > 0 => Len(rounds) = 3
               /\ \A n \in 1..Len(rounds) : rounds[n].accepted <=> n = Len(rounds)
               /\ NegotiatedWithoutLlm.best_offer.negotiated_price
                      = rounds[Len(rounds)].their_response
               /\ \A target \in TargetPrices :
                      LET run == NegotiationRounds(FALSE, <<>>, 1, StartingPrice, target, <<>>)
                      IN  /\ ~run.raised
                          /\ Len(run.rounds) \in 1..3
                          /\ run.rounds[Len(run.rounds)].accepted
                          /\ \A n \in 1..(Len(run.rounds) - 1) : ~run.rounds[n].accepted
    /\ Len(ExampleRounds) = 3
    /\ ExampleRounds[1].our_offer = HalfRupees(95000)
    /\ ExampleRounds[2].our_offer = HalfRupees(90250)
    /\ ExampleRounds[3].our_offer = 171475
    /\ ExampleRounds[3].accepted

\* A run about to negotiate an offer of 40000: without LLM the rounds are
\* 38000, 36100 and 34295.
C16_Witness ==
    /\ ReadyToNegotiate
    /\ StartingPrice = 40000
    /\ Len(NegotiatedWithoutLlm.negotiation_rounds) = 3
    /\ NegotiatedWithoutLlm.negotiation_rounds[2].our_offer = 36100
    /\ NegotiatedWithoutLlm.best_offer.negotiated_price = 34295

\* The run has negotiated a best offer.
Negotiated ==
    /\ wf.node \in {"finalize_contract", "notify", "END"}
    /\ wf.best_offer # None

\* No round raises the price: what is asked and what is answered is at most
\* the price before the round.
NeverIncreases(rounds, start) ==
    \A n \in 1..Len(rounds) :
        /\ rounds[n].our_offer <= PriceBefore(rounds, n, start)
        /\ rounds[n].their_response <= PriceBefore(rounds, n, start)

\* C17: the rounds a run recorded never raise the price, the negotiated
\* price is at most the original total price and the savings are not
\* negative; and for every target price the rounds made without LLM never
\* raise the price and never go below the target.
C17_PricesNeverIncrease ==
    /\ Negotiated =>
           /\ NeverIncreases(wf.negotiation_rounds, Get(wf.best_offer, "total_price", 0))
           /\ wf.best_offer.negotiated_price <= Get(wf.best_offer, "total_price", 0)
           /\ wf.best_offer.savings >= 0
    /\ ReadyToNegotiate =>
           \A target \in TargetPrices :
               LET run == NegotiationRounds(FALSE, <<>>, 1, StartingPrice, target, <<>>)
               IN  /\ NeverIncreases(run.rounds, StartingPrice)
                   /\ \A n \in 1..Len(run.rounds) : run.rounds[n].our_offer >= target

\* C17 for the rounds made with the LLM alone.
C17_NegotiatedPriceNeverIncreases ==
    Negotiated =>
        /\ NeverIncreases(wf.negotiation_rounds, Get(wf.best_offer, "total_price", 0))
        /\ wf.best_offer.savings >= 0

\* C17 for the rounds made without LLM alone.
C17_FallbackPriceNeverIncreases ==
    ReadyToNegotiate =>
        \A target \in TargetPrices :
            NeverIncreases(NegotiationRounds(FALSE, <<>>, 1, StartingPrice, target, <<>>).rounds,
                           StartingPrice)

\* At most three rounds, numbered from 1, of which only the last is
\* accepted, and it is.
WellFormedRounds(rounds) ==
    /\ Len(rounds) <= 3
    /\ \A n \in 1..Len(rounds) :
           /\ rounds[n].round = n
           /\ rounds[n].accepted <=> n = Len(rounds)

\* C18: the rounds a workflow run holds are at most three, numbered 1, 2, 3;
\* only the last one is accepted and it always is, so three rounds end with
\* an accepted third; a best offer counts exactly these rounds.  The same
\* holds for the rounds made without LLM, for every target price.
C18_RoundsBoundedAndStopAtAccept ==
    /\ "negotiation_rounds" \in DOMAIN wf =>
           /\ WellFormedRounds(wf.negotiation_rounds)
           /\ Negotiated =>
                  /\ wf.negotiation_rounds # <<>>
                  /\ wf.best_offer.negotiation_rounds = Len(wf.negotiation_rounds)
    /\ ReadyToNegotiate =>
           \A target \in TargetPrices :
               LET run == NegotiationRounds(FALSE, <<>>, 1, StartingPrice, target, <<>>)
               IN  run.rounds # <<>> /\ WellFormedRounds(run.rounds)

\* A run whose first two rounds were refused and whose third was accepted
\* below the target.
C18_Witness ==
    /\ Negotiated
    /\ Len(wf.negotiation_rounds) = 3
    /\ wf.negotiation_rounds[3].accepted
    /\ wf.negotiation_rounds[3].our_offer * 100
           < Get(wf.need_analysis, "max_acceptable_price_per_unit", 0) * wf.quantity * 95

\* A run whose first round was accepted.
C18_WitnessFirstRound ==
    /\ Negotiated
    /\ Len(wf.negotiation_rounds) = 1

\* C19: a run that has ranked offers to negotiate does not raise: whatever
\* the negotiation calls give, it goes on to finalize_contract with a best
\* offer and with the rounds recorded.
C19_FailedRoundFallsBack ==
    /\ "offer_evaluations" \in DOMAIN wf
    /\ wf.offer_evaluations # None
    /\ Get(wf.offer_evaluations, "ranked_offers", <<>>) # <<>>
    => /\ wf.node # "raised"
       /\ wf.node \in {"finalize_contract", "notify", "END"} =>
              wf.best_offer # None /\ wf.negotiation_rounds # <<>>

\* A decision that selects offers.
ValidSelection(d) ==
    /\ IsDict(d)
    /\ Truthy(d, "success")
    /\ "selected_offers" \in DOMAIN d
    /\ d.selected_offers # <<>>

\* A decision with success false and no selected offer.
FailureDecision(d) ==
    /\ IsDict(d)
    /\ "success" \in DOMAIN d
    /\ d.success = FALSE
    /\ "selected_offers" \notin DOMAIN d

\* C20: the final agreement of a completed session with offers is a
\* selection of offers or, for every other outcome of the decision call, a
\* decision with success false and no contract; the decision step does not
\* raise, so a call that went past it completed its session and yielded
\* negotiation_completed.
C20_MalformedDecisionIsFailure ==
    \A c \in DOMAIN sessions :
        /\ (sessions[c].status = "completed" /\ sessions[c].offers # <<>>) =>
               \/ ValidSelection(sessions[c].final_agreement)
               \/ FailureDecision(sessions[c].final_agreement)
        /\ gen[c].pc = "y_completed" =>
               /\ sessions[c].status = "completed"
               /\ HasEvent(c, "negotiation_completed")
               /\ gen[c].fault = "none"

\* C20, the part that holds: a decision call that raises, has no content or
\* returns text that does not decode gives the failure decision, and whatever
\* the call gives, the session is completed and negotiation_completed is
\* yielded.
C20_FailedDecisionCallIsFailure ==
    \A c \in DOMAIN sessions :
        /\ gen[c].pc = "await_decision" =>
               \A o \in OracleOutcomes(DecisionJsons(sessions[c].offers)) :
                   (o.kind # "content" \/ ~JsonDecodes(_extract_json(o.content))) =>
                       /\ _make_decision(o) = DecisionError
                       /\ FailureDecision(_make_decision(o))
        /\ gen[c].pc = "y_completed" =>
               /\ sessions[c].status = "completed"
               /\ HasEvent(c, "negotiation_completed")
               /\ gen[c].fault = "none"

\* A step of the negotiation of call c other than the consumer going away:
\* the generator is resumed, or an oracle call returns (with an answer or
\* with an exception, a timeout of the client among them).
Progress(c) ==
    \/ Broadcast(c)
    \/ Sleep(c)
    \/ Collect(c)
    \/ CallAnalyze(c)
    \/ \E o \in OracleOutcomes(AnalysisJsons) : AnalyzeReturns(c, o)
    \/ NextParticipant(c)
    \/ Negotiate(c)
    \/ \E o \in OracleOutcomes(NegotiationJsons) : NegotiateReturns(c, o)
    \/ NextOffer(c)
    \/ Decide(c)
    \/ DecisionReturns(c)
    \/ StreamComplete(c)

\* C21: a started session whose stream is still consumed is completed or
\* failed, or its negotiation can take a step; so under fair scheduling it
\* ends completed or failed.
C21_StartedSessionTerminates ==
    \A c \in DOMAIN sessions :
        gen[c].consumer = "attached" =>
            \/ sessions[c].status \in {"completed", "failed"}
            \/ ENABLED Progress(c)

\* C21, the part that holds: while an oracle call is awaited a step is
\* possible, and the session is not left waiting: an analyze call that fails
\* gives the denial, a negotiate call that fails gives no adjustment, a
\* decision call that fails gives the failure decision.
C21_AwaitedCallCanFail ==
    \A c \in DOMAIN sessions :
        (gen[c].consumer = "attached"
             /\ gen[c].pc \in {"await_analyze", "await_negotiate", "await_decision"}) =>
            /\ ENABLED Progress(c)
            /\ analyze_request([kind |-> "raise"]) = SystemError
            /\ negotiate_offer([kind |-> "raise"]) = NoAdjustment
            /\ _make_decision([kind |-> "raise"]) = DecisionError


----------------------------------------------------------------------------
\* C22

\* The fields of a call's session that the claim names; empty before the
\* session exists.
SessionFields(c) ==
    IF c \in DOMAIN sessions
    THEN <<sessions[c].status, sessions[c].offers, sessions[c].messages,
           sessions[c].final_agreement>>
    ELSE <<>>

\* Every action of a call moves its frame.
Steps(c) == gen[c]' # gen[c]

Kept(d) ==
    /\ SessionFields(d)' = SessionFields(d)
    /\ gen[d]' = gen[d]
    /\ stream[d]' = stream[d]
    /\ calls[d]' = calls[d]

IsAdjusted(e) == e.event = "offer_adjusted"

\* The oracle answers a session has consumed: the judgments are its messages,
\* the decision is its final agreement, and the adjustments are the payloads
\* of its offer_adjusted events (a negotiation answer that adjusts nothing
\* leaves no event).  Two calls with the same request, at the same place,
\* having consumed the same answers:
SameAnswers(c, d) ==
    /\ c \in DOMAIN sessions /\ d \in DOMAIN sessions
    /\ [sessions[c] EXCEPT !.session_id = "id"] = [sessions[d] EXCEPT !.session_id = "id"]
    /\ [gen[c] EXCEPT !.consumer = "any"] = [gen[d] EXCEPT !.consumer = "any"]
    /\ SelectSeq(stream[c], IsAdjusted) = SelectSeq(stream[d], IsAdjusted)

\* The events of a call, the session id (a fresh uuid4) left aside.
EventsEmitted(c) ==
    [n \in 1..Len(stream[c]) |->
        IF "session_id" \in DOMAIN stream[c][n]
        THEN [stream[c][n] EXCEPT !.session_id = "id"]
        ELSE stream[c][n]]

SameEvents ==
    \A c \in Calls2 : \A d \in Calls2 \ {c} :
        SameAnswers(c, d) => EventsEmitted(c) = EventsEmitted(d)

\* C22: in every interleaving of two concurrent sessions a step of one call
\* leaves the other session's status, offers, messages and final agreement
\* (and its frame, its events and its oracle calls) unchanged, and two
\* sessions that were given the same request and the same oracle answers have
\* emitted the same event sequence, whatever the other call was doing.
C22_ConcurrentSessionsIndependent ==
    /\ []SameEvents
    /\ [][\A c \in Calls2 : \A d \in Calls2 \ {c} : Steps(c) => Kept(d)]_vars

\* Both sessions exist with different requests; one is completed after an
\* adjustment was offered while the other still awaits a judgment.
C22_Witness ==
    /\ DOMAIN sessions = Calls2
    /\ sessions["c1"].status = "completed"
    /\ \E n \in 1..Len(stream["c1"]) : IsAdjusted(stream["c1"][n])
    /\ sessions["c2"].initiator_hospital # sessions["c1"].initiator_hospital
    /\ gen["c2"].pc = "await_analyze"
    /\ Len(sessions["c2"].messages) = 1

\* Two sessions with the same request and the same answers, both completed
\* with a contract after negotiation.
C22_WitnessSameAnswers ==
    /\ SameAnswers("c1", "c2")
    /\ sessions["c1"].status = "completed"
    /\ Len(sessions["c1"].offers) = 2
    /\ \E n \in 1..Len(stream["c1"]) : IsAdjusted(stream["c1"][n])

----------------------------------------------------------------------------
\* C23

\* The offers built from agent judgments carry the request's resource kind
\* (resource_type=resource_type at line 441).
JudgedOffersMatch ==
    \A c \in DOMAIN sessions :
        \A n \in 1..Len(sessions[c].offers) :
            sessions[c].offers[n].resource_type = sessions[c].request.resource_type

\* The offers a workflow run read from the store during collection.
CollectedOffersMatch ==
    "offers" \in DOMAIN wf =>
        \A n \in 1..Len(wf.offers) :
            /\ "resource_type" \in DOMAIN wf.offers[n]
            /\ wf.offers[n].resource_type = wf.resource_type

\* C23: every offer held by a negotiation has the resource kind of that
\* negotiation's request, both the offers built from agent judgments and the
\* offers read from the ephemeral store during collection.
C23_OfferKindMatchesRequest ==
    JudgedOffersMatch /\ CollectedOffersMatch

\* The part about judged offers, on its own.
C23_JudgedOfferKindMatchesRequest ==
    (\E c \in DOMAIN sessions : Len(sessions[c].offers) > 0) => JudgedOffersMatch

----------------------------------------------------------------------------
\* C24

IsAnswerEvent(e) == e.event \in {"offer_received", "offer_declined"}

\* Oracle calls of a session that have returned: every judgment is appended to
\* the messages, a negotiation answer moves the loop to the next offer, and
\* the decision is returned when the session is completed.
AnalysesReturned(c) == IF c \in DOMAIN sessions THEN Len(sessions[c].messages) ELSE 0

NegotiationsReturned(c) ==
    IF gen[c].pc = "await_negotiate" THEN gen[c].k - 1 ELSE gen[c].k

DecisionsReturned(c) == IF gen[c].pc = "await_decision" THEN 0 ELSE calls[c].decide

Outstanding(c) ==
    (calls[c].analyze - AnalysesReturned(c))
    + (calls[c].negotiate - NegotiationsReturned(c))
    + (calls[c].decide - DecisionsReturned(c))

Awaiting(c) == gen[c].pc \in {"await_analyze", "await_negotiate", "await_decision"}

\* C24: within one session at most one oracle call is outstanding; the
\* analyze call of a participant is issued only after the offer_received or
\* offer_declined event of every earlier participant was emitted, negotiate
\* calls begin only after all analyze calls returned, and the decision call
\* is issued only after all negotiate calls returned.
C24_OneOracleCallAtATime ==
    \A c \in DOMAIN gen :
        /\ Outstanding(c) = (IF Awaiting(c) THEN 1 ELSE 0)
        /\ calls[c].analyze > 0 =>
               calls[c].analyze <= 1 + Len(SelectSeq(stream[c], IsAnswerEvent))
        /\ calls[c].negotiate > 0 =>
               /\ AnalysesReturned(c) = calls[c].analyze
               /\ calls[c].analyze = Len(sessions[c].participant_hospitals)
        /\ calls[c].decide > 0 =>
               /\ AnalysesReturned(c) = calls[c].analyze
               /\ NegotiationsReturned(c) = calls[c].negotiate
               /\ calls[c].negotiate \in {0, Len(sessions[c].offers)}

\* The decision call is outstanding after two analyze calls and two negotiate
\* calls were issued and returned.
C24_Witness ==
    \E c \in DOMAIN sessions :
        /\ gen[c].pc = "await_decision"
        /\ calls[c] = [analyze |-> 2, negotiate |-> 2, decide |-> 1]

----------------------------------------------------------------------------
\* C25

SeqRange(seq) == {seq[n] : n \in 1..Len(seq)}

\* C25: the participant list of every session is the registered parties
\* without the initiator, each once and in registry order; the initiator is
\* never analyzed (no agent_analyzing event and no judgment of its own) and
\* never is the offering party of an offer of its own session.
C25_ParticipantsExcludeInitiator ==
    \A c \in DOMAIN sessions :
        LET sess == sessions[c]
            ps   == sess.participant_hospitals
            self == sess.initiator_hospital
        IN  /\ SeqRange(ps) = Registered \ {self}
            /\ Len(ps) = Cardinality(Registered) - 1
            /\ InRegistryOrder(ps)
            /\ \A n \in 1..Len(sess.messages) : sess.messages[n].from \in SeqRange(ps)
            /\ \A n \in 1..Len(sess.offers) : sess.offers[n].hospital_id \in SeqRange(ps)
            /\ \A n \in 1..Len(stream[c]) :
                   "agent" \in DOMAIN stream[c][n] =>
                       stream[c][n].agent # hospital_name(self)
            /\ calls[c].analyze <= Len(ps)

\* A session of HOSP_B is completed with the offers of HOSP_A and HOSP_C.
C25_Witness ==
    \E c \in DOMAIN sessions :
        /\ sessions[c].status = "completed"
        /\ sessions[c].initiator_hospital = "HOSP_B"
        /\ sessions[c].participant_hospitals = <<"HOSP_A", "HOSP_C">>
        /\ Len(sessions[c].offers) = 2

----------------------------------------------------------------------------
\* C26

\* What the caller of POST /negotiate receives: the StreamingResponse is
\* returned before the generator runs (lines 67-75), so the status is 200 and
\* the body is the events written.
StartResponse(c) == [status_code |-> 200, body |-> stream[c]]

ReportedNotFound(c) == StartResponse(c).status_code = NotFound.status_code

\* The call was made with an initiator id that is not in the registry: the
\* lookup at line 370 raised before the session was created.
UnknownInitiator(c) == gen[c].fault = "KeyError" /\ c \notin DOMAIN sessions

\* An id that was never created is absent, and a GET of it is answered 404.
UnknownSessionAbsent ==
    /\ \A id \in SessionIds \ DOMAIN sessions :
           get_session(id) = None /\ get_session_details(id) = NotFound
    /\ \A n \in 1..Len(reads) :
           reads[n].session_id \notin DOMAIN sessions => reads[n].response = NotFound

\* C26: get_session of an id that was never created returns absent, and a
\* negotiation started with an initiator id that is not in the registry is
\* reported to the caller as a not-found condition, creates no session and
\* emits no negotiation_initiated event.
C26_UnknownIdsAreNotFound ==
    /\ UnknownSessionAbsent
    /\ \A c \in DOMAIN gen :
           UnknownInitiator(c) =>
               /\ ReportedNotFound(c)
               /\ ~HasEvent(c, "negotiation_initiated")

\* What holds of it: the unknown session is absent, and the unknown initiator
\* leaves no session and no negotiation_initiated event, only an error event.
C26_UnknownInitiatorCreatesNothing ==
    /\ UnknownSessionAbsent
    /\ \A c \in DOMAIN gen :
           UnknownInitiator(c) =>
               /\ stream[c] = <<Ev("error")>>
               /\ get_session(c) = None
               /\ \A n \in 1..Len(reads) :
                      reads[n].session_id = c => reads[n].response = NotFound

----------------------------------------------------------------------------
\* C27

\* The GET responses that showed a completed session.
ReadCompleted(n) ==
    /\ reads[n].response # NotFound
    /\ reads[n].response.session.status = "completed"

\* Every response for a completed session is the same as every other one for
\* that session, and is the session as it stands.
RepeatedReadsIdentical ==
    \A m, n \in 1..Len(reads) :
        (ReadCompleted(m) /\ reads[n].session_id = reads[m].session_id) =>
            /\ reads[n].response = reads[m].response
            /\ reads[m].response = SessionDetails(sessions[reads[m].session_id])

----------------------------------------------------------------------------
\* C28

\* C28: once a session's status is completed, no later step of any operation
\* (its own stream ending or being cut off, another negotiation, a read)
\* changes its status, offers, messages or final agreement.
C28_CompletedSessionIsFrozen ==
    [][\A c \in DOMAIN sessions :
           sessions[c].status = "completed" =>
               SessionFields(c)' = SessionFields(c)]_vars

\* One session is completed with a contract, its stream has ended and it was
\* read, while the other negotiation has gone on to collect an offer.
C28_Witness ==
    /\ DOMAIN sessions = Calls2
    /\ sessions["c1"].status = "completed"
    /\ Truthy(sessions["c1"].final_agreement, "success")
    /\ gen["c1"].pc = "closed"
    /\ gen["c2"].consumer = "detached"
    /\ Len(sessions["c2"].offers) = 1
    /\ Len(reads) > 0

----------------------------------------------------------------------------
\* C29

LastNotification(st) == st.notifications[Len(st.notifications)]

\* The run has a best offer and a store, and the store did not take the
\* contract of the run.
LedgerWriteFailed ==
    /\ wf.node \in {"notify", "END"}
    /\ wf.best_offer # None
    /\ wf.cache_service # "None"
    /\ \A k \in DOMAIN wf.ledger : wf.ledger[k] # wf.final_contract

\* C29: when writing the finalized contract to the store fails, the finalize
\* step still sets the final contract and contract_finalized, and the
\* workflow goes on to notify, which issues a success notification.
C29_LedgerFailureTolerated ==
    /\ LedgerWriteFailed =>
           /\ wf.final_contract # None
           /\ wf.contract_finalized
           /\ wf.node = "END" => LastNotification(wf).type = "success"
    /\ (wf.node = "finalize_contract" /\ wf.best_offer # None) =>
           \A serial \in ContractSerials :
               LET st == _finalize_contract(wf, serial, FALSE)
               IN  /\ st.node = "notify"
                   /\ st.final_contract = Contract(wf, serial)
                   /\ st.contract_finalized
                   /\ st.ledger = wf.ledger
                   /\ LastNotification(_notify(st)).type = "success"

\* A run ended with a contract and a success notification although the store
\* holds no contract.
C29_Witness ==
    /\ LedgerWriteFailed
    /\ wf.node = "END"
    /\ wf.contract_finalized
    /\ LastNotification(wf).type = "success"

----------------------------------------------------------------------------
\* C30

\* The run was aborted by an exception of the collection node.
AbortedInCollection ==
    /\ wf.node = "raised"
    /\ "current_step" \in DOMAIN wf
    /\ wf.current_step = "broadcast_request"

\* A value the store no longer holds (None) is left out, the other offers are
\* kept in the order read, and the run goes on to evaluation.
AbsentOfferSkipped ==
    (wf.node = "collect_offers" /\ wf.cache_service = "Store") =>
        \A got \in StoreReads :
            LET st == _collect_offers(wf, got)
            IN  /\ st.node = "evaluate_offers"
                /\ st.offers = SelectSeq(got, Present)
                /\ st.offers_collected

\* C30: when the store fails or is unavailable during offer collection, the
\* workflow degrades to the offers it could read, possibly none, and goes on
\* to evaluation instead of aborting; an absent offer key is skipped.
C30_StoreFailureDegrades ==
    /\ ~AbortedInCollection
    /\ wf.node = "collect_offers" =>
           \A got \in StoreReads : _collect_offers(wf, got).node = "evaluate_offers"
    /\ AbsentOfferSkipped

\* What holds of it: with a store that can list keys, absent offers are
\* skipped without error.
C30_AbsentOfferIsSkipped ==
    /\ AbsentOfferSkipped
    /\ (wf.node = "evaluate_offers" /\ wf.cache_service = "Store") =>
           \A n \in 1..Len(wf.offers) : wf.offers[n] # None

----------------------------------------------------------------------------
\* C31

\* The finalize step is about to build a contract.
AboutToFinalize == wf.node = "finalize_contract" /\ wf.best_offer # None

\* The contracts the store held are still there, each as it was.
LedgerKept(stored, ledger) ==
    \A k \in DOMAIN stored : k \in DOMAIN ledger /\ ledger[k] = stored[k]

\* C31: the id of a contract the finalize step builds differs from the id of
\* every contract built before, so that storing it under its id overwrites
\* no contract in the ledger.
C31_ContractIdsDistinct ==
    AboutToFinalize =>
        \A stored \in StoredContracts(wf.cache_service), serial \in ContractSerials :
            LET st == _finalize_contract([wf EXCEPT !.ledger = stored], serial, TRUE)
            IN  /\ st.final_contract.contract_id \notin DOMAIN stored
                /\ LedgerKept(stored, st.ledger)

\* What holds of it: a contract whose id is not taken overwrites nothing and
\* is stored under its id.
C31_FreshIdKeepsLedger ==
    AboutToFinalize =>
        \A stored \in StoredContracts(wf.cache_service), serial \in ContractSerials :
            LET st == _finalize_contract([wf EXCEPT !.ledger = stored], serial, TRUE)
            IN  st.final_contract.contract_id \notin DOMAIN stored =>
                    /\ LedgerKept(stored, st.ledger)
                    /\ wf.cache_service # "None" =>
                           st.ledger[st.final_contract.contract_id] = st.final_contract

----------------------------------------------------------------------------
\* C32

\* The nodes in the order of the edges of _build_workflow.
StepOrder ==
    <<"analyze_need", "broadcast_request", "collect_offers", "evaluate_offers",
      "negotiate", "finalize_contract", "notify", "END">>

StepIndex(node) == CHOOSE n \in 1..Len(StepOrder) : StepOrder[n] = node

Running == wf.node \in SeqRange(StepOrder) \ {"END"}

\* The position of a value of current_step; "initializing" comes first.
StepRank(step) == IF step = "initializing" THEN 0 ELSE StepIndex(step)

Flags == {"analysis_complete", "broadcast_sent", "offers_collected", "negotiation_complete"}

\* Flags stay set and current_step does not go back.
StateAdvances ==
    /\ \A f \in Flags : wf[f] => wf'[f]
    /\ StepRank(wf'.current_step) >= StepRank(wf.current_step)

\* C32: in every run of the workflow the steps execute once each in the
\* order analyze need, broadcast, collect offers, evaluate offers, negotiate,
\* finalize contract, notify: a step of a run is always the next node of that
\* order; the four flags never revert and current_step never goes back.
C32_StepsOnceInOrder ==
    [][(Running /\ wf' # wf) =>
           /\ wf'.node = StepOrder[StepIndex(wf.node) + 1]
           /\ StateAdvances]_vars

\* What holds of it: a run follows the order for as long as no node raises.
C32_StepsInOrderUntilRaise ==
    [][(Running /\ wf' # wf) =>
           /\ wf'.node \in {StepOrder[StepIndex(wf.node) + 1], "raised"}
           /\ StateAdvances]_vars

----------------------------------------------------------------------------
\* C33

Finalized == wf.node \in {"notify", "END"} /\ wf.final_contract # None

\* The parts of the contract that follow from the best offer as it is.
ContractFollowsBestOffer ==
    LET contract == wf.final_contract
        summary  == contract.negotiation_summary
    IN  /\ contract.status = "pending_signature"
        /\ contract.total_price = wf.best_offer.negotiated_price
        /\ contract.unit_price.num = contract.total_price
        /\ contract.unit_price.den = wf.quantity
        /\ summary.final_price = contract.total_price
        /\ summary.rounds \in 1..3

\* The best offer carries the price it was offered at.
HasOriginalPrice == "total_price" \in DOMAIN wf.best_offer

\* C33: every contract built by the finalize step has status
\* pending_signature, total price equal to the negotiated price, unit price
\* times the requested quantity equal to the total price, summary savings
\* equal to original price minus final price, and a round count between 1
\* and 3; the step does not fail for a best offer that is not None.
C33_ContractIsConsistent ==
    /\ Finalized =>
           /\ ContractFollowsBestOffer
           /\ HasOriginalPrice
           /\ wf.final_contract.negotiation_summary.savings =
                  wf.final_contract.negotiation_summary.original_price
                      - wf.final_contract.negotiation_summary.final_price
    /\ (wf.node = "finalize_contract" /\ wf.best_offer # None) =>
           \A serial \in ContractSerials, written \in BOOLEAN :
               _finalize_contract(wf, serial, written).node = "notify"

\* What holds of it: everything but the savings, which are computed from 0
\* when the best offer has no total_price while original_price is None then.
C33_ContractFollowsBestOffer ==
    /\ Finalized =>
           /\ ContractFollowsBestOffer
           /\ wf.final_contract.negotiation_summary.savings =
                  Get(wf.best_offer, "total_price", 0) - wf.best_offer.negotiated_price
           /\ ~HasOriginalPrice =>
                  wf.final_contract.negotiation_summary.original_price = None
    /\ (wf.node = "finalize_contract" /\ wf.best_offer # None) =>
           \A serial \in ContractSerials, written \in BOOLEAN :
               /\ _finalize_contract(wf, serial, written).node = "notify"
               /\ _finalize_contract(wf, serial, written).contract_finalized

----------------------------------------------------------------------------
\* C34

\* The contract names the party of the collected offer n at that offer's price.
ContractOfOffer(n) ==
    /\ wf.final_contract.supplying_hospital = wf.offers[n].hospital_id
    /\ "total_price" \in DOMAIN wf.offers[n]
    /\ HasOriginalPrice
    /\ wf.final_contract.negotiation_summary.original_price = wf.offers[n].total_price

\* The ranking is the one of the price fallback.
RankedByFallback ==
    Get(wf.offer_evaluations, "recommendation", "") = "Ranked by price (LLM evaluation failed)"

\* C34: the supplier named in a finalized contract is the offering party of
\* one of the offers collected in that run, and the contract's original price
\* is that offer's total price, whether the ranking came from the evaluation
\* oracle or from the price fallback.
C34_SupplierIsCollectedOffer ==
    Finalized => \E n \in 1..Len(wf.offers) : ContractOfOffer(n)

\* What holds of it: under the price fallback the best offer is the cheapest
\* collected offer with the outcome of the negotiation added, so the supplier
\* is its party and the original price its total price, if it has one.
C34_FallbackSupplierIsCheapestOffer ==
    (Finalized /\ RankedByFallback) =>
        LET top == SortByTotal(wf.offers)[1]
        IN  /\ wf.final_contract.supplying_hospital = top.hospital_id
            /\ \A key \in DOMAIN top : wf.best_offer[key] = top[key]
            /\ HasOriginalPrice <=> "total_price" \in DOMAIN top

----------------------------------------------------------------------------
\* C35

PastCollection == {"negotiating", "deciding", "completed"}

\* Party, quantity and resource kind of the offers, in list order.
OfferIdentity(c) ==
    [n \in 1..Len(sessions[c].offers) |->
        <<sessions[c].offers[n].hospital_id, sessions[c].offers[n].quantity,
          sessions[c].offers[n].resource_type>>]

\* C35: once the collecting_responses phase is over, no step of the
\* negotiating, deciding or completed phase changes the length or the order
\* of the session's offer list or the party, quantity or resource kind of an
\* offer.
C35_OffersFixedAfterCollection ==
    [][\A c \in DOMAIN sessions :
           sessions[c].status \in PastCollection =>
               OfferIdentity(c)' = OfferIdentity(c)]_vars

\* The decision is awaited for two offers after an adjustment was proposed.
C35_Witness ==
    \E c \in DOMAIN sessions :
        /\ sessions[c].status = "deciding"
        /\ gen[c].pc = "await_decision"
        /\ Len(sessions[c].offers) = 2
        /\ HasEvent(c, "offer_adjusted")

----------------------------------------------------------------------------
\* C36

IsPrefix(s, t) == Len(s) <= Len(t) /\ SubSeq(t, 1, Len(s)) = s

\* The audit messages of a session: one per analyzed participant, in
\* participant order, the last one written before its answer event.
MessagesFollowParticipants(c) ==
    LET sess    == sessions[c]
        ps      == sess.participant_hospitals
        answers == Len(SelectSeq(stream[c], IsAnswerEvent))
    IN  /\ Len(sess.offers) <= Len(sess.messages)
        /\ Len(sess.messages) <= Len(ps)
        /\ \A n \in 1..Len(sess.messages) :
               sess.messages[n].from = ps[n] /\ sess.messages[n].type = "analysis"
        /\ answers <= Len(sess.messages)
        /\ Len(sess.messages) <= answers + 1
        /\ Len(sess.messages) = calls[c].analyze - (IF gen[c].pc = "await_analyze" THEN 1 ELSE 0)
        /\ sess.status = "completed" => Len(sess.messages) = Len(ps)

\* C36: in every session state the number of offers is at most the number of
\* audit messages, which is at most the number of participants; messages are
\* only appended, one per analyzed participant in participant order and
\* before that participant's offer_received or offer_declined event; a
\* completed session has exactly one message per participant.
C36_MessagesAuditAnalyses ==
    /\ [](\A c \in DOMAIN sessions : MessagesFollowParticipants(c))
    /\ [][\A c \in DOMAIN sessions :
              IsPrefix(sessions[c].messages, sessions'[c].messages)]_vars

\* A completed session with two audit messages and the one offer of the
\* participant that could help.
C36_Witness ==
    \E c \in DOMAIN sessions :
        /\ sessions[c].status = "completed"
        /\ Len(sessions[c].messages) = 2
        /\ Len(sessions[c].offers) = 1
        /\ sessions[c].offers[1].hospital_id = sessions[c].messages[2].from
        /\ HasEvent(c, "offer_declined")

----------------------------------------------------------------------------
\* C37

\* C37: a run that has passed the notify step holds exactly one notification,
\* of type success if and only if a final contract exists and of type error
\* otherwise, with completed_at and total_time_seconds set; before that step
\* (and in a run that was aborted) there is no notification and the two
\* fields are None.
C37_NotifyOnceByContract ==
    /\ wf.node = "END" =>
           /\ Len(wf.notifications) = 1
           /\ wf.notifications[1].type \in {"success", "error"}
           /\ wf.notifications[1].type = "success" <=> wf.final_contract # None
           /\ wf.completed_at # None
           /\ wf.total_time_seconds # None
    /\ (wf.node \notin {"idle", "END"} /\ "notifications" \in DOMAIN wf) =>
           /\ wf.notifications = <<>>
           /\ wf.completed_at = None
           /\ wf.total_time_seconds = None

\* A run ended with the success notification of the contract it stored.
C37_Witness ==
    /\ wf.node = "END"
    /\ wf.final_contract # None
    /\ wf.notifications = <<SuccessNotification(wf.final_contract)>>
    /\ wf.final_contract.contract_id \in DOMAIN wf.ledger
    /\ wf.ledger[wf.final_contract.contract_id] = wf.final_contract

\* A run without offers ended with the error notification.
C37_WitnessError ==
    /\ wf.node = "END"
    /\ wf.notifications = <<ErrorNotification>>
    /\ wf.final_contract = None

----------------------------------------------------------------------------
\* C38

\* The session ids carried by the negotiation_initiated events written so far.
AnnouncedIds ==
    UNION { { stream[c][n].session_id :
                n \in { m \in 1..Len(stream[c]) : "session_id" \in DOMAIN stream[c][m] } } :
            c \in DOMAIN stream }

\* What identifies the entry of a session: it is the object created for the
\* request, whatever its phase has written since.
Entry(id) ==
    <<sessions[id].session_id, sessions[id].initiator_hospital,
      sessions[id].participant_hospitals, sessions[id].request>>

\* C38: a session is in the session map when its negotiation_initiated event
\* is emitted, so get_session of the id the event carries finds it (and that
\* session); an entry is written once and never removed or replaced, so the
\* number of sessions never decreases.
C38_SessionStoredBeforeAnnounced ==
    /\ [](\A id \in AnnouncedIds :
              get_session(id) # None /\ get_session(id).session_id = id)
    /\ [][\A id \in DOMAIN sessions :
              id \in DOMAIN sessions' /\ Entry(id)' = Entry(id)]_vars

\* Both negotiations have announced their sessions and both are stored.
C38_Witness ==
    /\ AnnouncedIds = Calls2
    /\ DOMAIN sessions = Calls2
    /\ gen["c1"].pc = "y_initiated"
    /\ gen["c2"].pc = "y_initiated"

====
